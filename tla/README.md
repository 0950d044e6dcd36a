# A verification of crankshaft-core

crankshaft-core is the backend of an in-car entertainment system: it talks
Android Auto to a phone over USB or WiFi, drives the audio, video, Bluetooth and
WiFi hardware, and offers all of it to a UI over a WebSocket. This directory
holds TLA+ models of its control logic, TLC configurations that check them on
small instances, and proofs, checked by TLAPS, of what matters most.

Paths below are relative to `src/src/`; *RealAA* is
`services/android_auto/RealAndroidAutoService.cpp`.

## 1. The system

### How it runs

The core is one process with one Qt event loop. aasdk, the Android Auto
protocol library, runs on a boost `io_service` that a 10 ms `QTimer` polls from
that same loop (RealAA 3244-3269). A message handler, a USB completion, a timer
callback, a WebSocket command: each runs to completion before the next. So there
are no data races to model in the services; what is hard is the *order* in which
callbacks run. A callback is started under one state of the service and runs
under another, and most of the service's code is about that: flags that say what
is under way, chains of single-shot timers that finish it, early exits when a
timer finds that the world has changed.

### Components

| Component | State it keeps | Operations | What makes it correct |
|---|---|---|---|
| **Android Auto connection** (RealAA) | connection state, aasdk stack, channel objects and their handlers, projection milestones, recovery flags and counters, detection timers | `startSearching`, hub and scan detection, `handleConnectionEstablished`, `disconnect`, `onChannelError`, the recoveries, the projection idle watchdog, `deinitialise` | a search reaches detection; a recovery ends in a search; two recoveries never overlap; no error of a torn-down connection counts against the next one |
| **Projection sessions** (RealAA 7083-7239, `SessionStore`) | in-memory session state and id, heartbeat timer, rows of the `sessions` table | create, state updates, heartbeat, end | the session mirrors the connection; one open row, but for rows that a crash or a refused statement leaves open; an ended row stays ended |
| **Control bring-up** (RealAA 1370-1746, 5586-5759) | version request attempts, native-2 failures, handshake epoch and watchdog | version requests and retries, handshake steps, service discovery | one chain of requests per connection; a wait for the handshake is always watched, and only by its own watchdog |
| **Channels of a projection** (RealAA 3389-4250, 5120-5480, 6453-6905, the event handlers) | channel objects and their handlers, the flags of what is armed, ten milestones, `projection_ready`, the idle watchdog | set up, arm, re-arm, receive, clean up, `publishProjectionStatus`, idle recovery | an advertised channel is listened to; a projection that is not ready is watched; what is announced is so |
| **Device detection** (RealAA 4362-4599, 5803-6318) | hub promise, detection timer, AOAP query with its attempts, watchdogs and retry window | hub promise, periodic and single scans, filters by vendor, AOAP queries | a search is never left with nothing that moves it |
| **Profiles** (`ProfileManager`) | host profiles, vehicle profiles, active id, two JSON files | create, update, delete, activate, device edits, load, save | one active profile; what could be saved is what is loaded |
| **Service life cycle** (`ServiceManager`, `CoreApplicationRunner`) | running services, media pipeline, startup renegotiation flags | start, stop, restart, reload by profile signals, startup renegotiation | running services are enabled devices of the active profile; who uses a service notices that it was replaced |
| **WebSocket API** (`WebSocketServer`) | clients, subscriptions, client contract, cached projection status and codec parameters, renegotiation cooldown, Bluetooth scan timer | connect, hello, subscribe, publish, service commands, broadcasts | a client that did not pass the contract gets nothing; a subscriber knows the state; caches are not older than the connection they describe |
| **Event bus** | a mutex | publish; its one listener, in `CoreApplicationRunner`, logs | |
| **Extensions** (`ExtensionManager`) | installed extensions, running flags, process by extension, extension by process | install, update, start, stop, restart, uninstall; the end of a process | what is running has one recorded process, and nothing else has |
| **Media, driving mode** | playback and mode | setters; the core constructs neither | |
| **Audio routing and mixing** (`AudioRouter`, `AudioMixer`) | backend and its retry, ducking, buffers of the mixed streams | route a buffer, duck, mix | nothing is held back; ducking ends with the guidance |
| **Video and WebRTC pipelines** | GStreamer pipelines | start, stop, push frames, signalling | started pipelines are stopped |
| **Bluetooth and WiFi** (`BluetoothHAL`, `WiFiHAL` and their managers) | devices, discovery, pairing; hotspot, networks, scans | calls to BlueZ and NetworkManager whose replies come late | a discovery ends; no hotspot is left behind unknown, but by a call that failed |
| **Device HALs, configuration, logging, diagnostics** | buffers, key/value data | I/O | |

### How they interact

`CoreApplicationRunner` constructs the profile manager, the service manager and
the WebSocket server and starts the services of the active profile. The profile
manager signals changes; the service manager restarts services in response. The
service manager owns the Android Auto service, the WiFi and Bluetooth managers
and the media pipeline, and gives them to one another. The WebSocket
server forwards commands to the Android Auto service (`handlePublish`) and
broadcasts its signals. The Android Auto service drives aasdk, the session store
and the pipeline. The connection model covers the two ends that touch it: the
WebSocket commands (`Launch`, `DisconnectCommand`, `ConnectToDevice`) and the
service manager's stop and start (`Restart`). What both ends keep of the
connection's state, and do by it, is `Renegotiation`.

### What is hard

PROJECT.json lists the hazards at their lines. In short: promises, receives and
accepts that outlive the connection they were made for; recoveries of several
chained timers that other events overtake; flags taken in one callback and given
back in another; teardown whose own effects look like new errors; statements, saves and
D-Bus calls whose failure nobody looks at; rows that outlive the process; pointers
that outlive their service.

## 2. The plan

1. `SessionRecords`, `AndroidAutoLink`, `SessionLedger`: the connection with its
   sessions, the promise of the session store (**done**, with its proofs).
2. `ControlBringUp`: version requests, handshake watchdog epochs, retries. It
   details what `AndroidAutoLink` abstracts in `SendFailed` and `VersionAccepted`
   (**done**, with its proofs).
3. `ProjectionChannels`: which channel has a receive outstanding after each arming,
   error, re-arming and recovery, in each configuration, and the readiness that the
   messages make (**done**).
4. `ProfileStore`, `ProfileServices`: `ProfileManager` and `ServiceManager`
   together: profile edits, signals, the services, the two files and crashes
   while they are written (**done**, with its proofs).
5. `Renegotiation`: the startup renegotiation of the service manager and the
   renegotiation command of the WebSocket server over an abstract connection
   (**done**).
6. `ApiClients`: clients, contract, subscriptions, cached parameter sets;
   `BluetoothScan`: the Bluetooth commands down to BlueZ (**done**).
7. `DeviceScan`, `WirelessHotspot`, `AndroidAutoSettings`, `AudioPath`,
   `ExtensionProcesses` (**done**).
8. Theorems about 3 and 5 to 7: every safety invariant and action property of the
   runs, with `RunningIsConfigured` for lists whose devices bear the names of
   services (**done**).
9. Left: abstract specifications that the theorems can be measured against, as
   `SessionLedger` is for the sessions.

No module declares a RECURSIVE operator, so that each of them can be proved about.
Abstract specifications worth stating besides `SessionLedger`: of
`ProfileServices`, a pair of books that survive; of `ApiClients`, a subscription
table; of `AudioPath`, a mixer without buffers.

## 3. Modules

### SessionRecords: the session bookkeeping

Operators only, no variables. The bookkeeping record has the in-memory session
state, the current session id, whether the heartbeat timer runs, and the state
column of every row. `OnConnectionState` is the `switch` at the end of
`transitionToState`; `CreateSession` is `createSessionForDevice`, which ends the
open session first. `StoreOpen = FALSE` is the service whose store failed to open,
which keeps no id at all.

Every statement may fail. An INSERT that does leaves `"missing"`, and every later
UPDATE of that row has no effect. An UPDATE that does leaves the row as it was, while
the service logs a warning and goes on: the memory state moves, and the end of a
session clears the current id whatever became of the row (RealAA 7097-7101,
7229-7238). `failing` is what the database refuses at present, one of the sets in
`Refusals`; `AndroidAutoLink` changes it at any time. No event makes one of the five
statements twice, so that refusing them by name, rather than call by call, loses no
case; and a proof for all `Refusals` is one for any database. `stale`, which the code
does not have, records whose last UPDATE was refused.

### AndroidAutoLink: the connection

One record, `link`, is the service instance (the module's header names each field
and the member it stands for). Every function of the code that changes this state
is an operator from a record to a record, or to the *set* of records it may leave
when a library call inside it may fail; an action is a handler, a timer callback
or a command and applies these operators in the order of the code. Thus
`ImmediateRecovery` is, as in the code, flag, stop detection, `Disconnect`,
`CleanupChannels`, `Transition`, start the timer, and a handler that calls
`transitionToState` also updates the session in the same step.

| Actions | Code |
|---|---|
| `StartupDelayOver`, `HubReported`, `ScanFoundDevice` | USB detection: the delay before it, the promise of the hub, the scans |
| `PhoneAccepted`, `AcceptFailed` | the accept callback of the wireless port |
| `VersionAccepted`, `VersionRejected`, `ServiceDiscovery`, `MediaProgress`, `MediaStopped`, `ByeBye` | messages of the phone, as far as they move the state |
| `LiveChannelError`, `LateChannelError`, `SendFailed` | `onChannelError`, from a live handler, from a receive of an older connection, from the service's own sends and timeouts |
| `RearmDelayOver`, `GraceOver`, `ReconnectDelayOver`, `TimeoutReconnectDelayOver`, `FullReinitDelayOver`, `SoftReinitDelayOver`, `ImmediateDelayOver` | the timers that channel errors start |
| `IdleRecoveryDue`, `IdleDisconnect`, `IdleCleanup`, `IdleRestart` | the projection idle watchdog's recovery, three chained timers |
| `Launch`, `ConnectToDevice`, `DisconnectCommand` | commands of the UI |
| `Restart`, `Crash` | the service manager stops and starts the service; the process dies and is started again over the same database |
| `StoreChanges` | the database begins or ceases to refuse statements |

What is abstracted, and to what:

- **Time.** A timer that is pending may expire at any moment and in any order.
  The delays differ in the code, but they are configuration values with wide
  bounds, so no order between them is relied on.
- **Errors.** The text of an error matters only through the predicates of
  `AasdkErrorClassification.h`; `ErrorKind` has one member for each combination
  of predicates the code tells apart. `Native Code: 1` is matched as a substring
  there, so codes such as 12 count as 1; they fall into the same kinds.
- **Receives.** `armed` is the receive of the control channel; the other eight
  channels share `others`. A stop of the messenger turns outstanding receives
  into `late` ones, which report to the handlers or the service when they like.
  The delays after which a handler re-arms its channel are timers of kind
  "rearm"; which handler's it was is left open.
- **Milestones.** `progress` orders the flags of `publishProjectionStatus`; a
  phone opens its media channels only after service discovery.
- **Grace for other channels before the handshake** (the first errors in a
  window are ignored, later ones not): the model leaves open, for each error,
  whether it is ignored.
- **Undefined behaviour.** Two calls dereference what may be null: the accept
  callback (`m_tcpWrapper`, 3381) and `stopSearching` (`m_usbHub`). The guards
  of `PhoneAccepted` and `Restart` exclude those states; both are hazards, not
  behaviours.
- **AUTHENTICATING, SECURING, SUSPENDED** are declared by the code and never
  entered.

### SessionLedger: what the store promises

The abstract specification: each id is unused, open, closed or lost; opening
takes an unused id and ends the open one. A session is lost when its end leaves its
row open: the process died, or the statement that was to end it was refused.
`AndroidAutoLink` implements it (`ImplementsLedger`). The mapping `LedgerStatus` reads
the rows: "ended" is closed, any other row is open while its session is the current
one and lost afterwards. Only a session whose INSERT failed has no row to read, and is
closed when it is no longer the current one. The history variable `orphans` records
the rows that a crash left open, for `OneOpenSession`; the mapping does not use it.

### MCLink

Instantiates `AndroidAutoLink` for TLC with the symmetry of session ids, which
are only ever compared. Symmetry is used for safety only.

### ControlBringUp: version requests and the handshake watchdog

One record, `control`, is what the bring-up of a connection reads and writes: the
connection state, the control channel and its handler, the version requests
counted and outstanding, and the wait for the TLS handshake with its watchdogs.
The connection around it is an environment that may establish, lose, tear down
or fail at any moment; `AndroidAutoLink` says when it does.

| Actions | Code |
|---|---|
| `Establish`, `Lose`, `TearDown`, `AttemptFailed`, `ConnectToDevice`, `Restart` | the connection around the bring-up, as far as it touches this state |
| `InitialDelayOver`, `RetryDelayOver` | the timers that send a version request |
| `RequestSent`, `RequestFailed` | the promise of a request, which nothing ties to the connection it was made on |
| `VersionResponse`, `HandshakeReceived`, `DiscoveryRequested` | messages of the phone |
| `ControlFailed` | `onChannelError` of the control channel |
| `WatchdogExpires` | the handshake watchdog, and the one after its retry |

What is abstracted:

- **Epochs.** `m_controlHandshakeEpoch` only grows and is only compared for
  equality with the value a watchdog captured. So a watchdog is `current` until
  the epoch passes it and never again. `own` is history: the wait the watchdog
  was started for is not over.
- **Configuration.** The defaults, with the fast reconnect on native-2 timeouts
  on; the counts are constants.
- **Timers and messages.** A timer may expire at once, which includes an initial
  delay of 0; after a transient error the receive is armed at once instead of
  120 ms later. A phone answers each version request at most once.
- SEARCHING counts as DISCONNECTED, which the bring-up does not tell apart. A
  CONNECTED service has no recovery under way (`AndroidAutoLink`), so errors
  are not suppressed by one.

### MCBringUp

Instantiates `ControlBringUp` for the run `native2`; `MCParts` checks what holds
of it.

### ProjectionChannels: what is listened to, and when a projection is ready

`svc` is the service as far as its channels go: for each channel whether there is
an object, whose handler it has and whether a receive is outstanding; the ten
milestones; the status last announced; the idle watchdog. `policy` is the startup
policy the configuration selects, and fixed. The connection comes and goes as
`AndroidAutoLink` has it, here whenever it can.

| Actions | Code |
|---|---|
| `Established`, `CleanUp`, `Disconnect`, `NewService` | set up, arming on connect, tear down |
| `ControlMessage`, `VideoMessage`, `AudioMessage`, `InputMessage`, `SensorMessage`, `MicrophoneMessage`, `BluetoothMessage`, `WifiMessage` | every message of the event handlers that arms, opens, starts, stops or counts as a milestone |
| `ReceiveFails`, `SendFails`, `NudgeFails`, `InputSendFails` | `onChannelError` of the handlers, of the service and of its own sends |
| `RetryOver`, `GraceOver`, `MicDelayOver` | the timers of re-arming, of the grace for a device that went, of the microphone |
| `WatchdogTick`, `WatchdogStops`, `IdleRecovery` | the idle watchdog and its recovery |
| `SetChannelConfig`, `BridgeFails` | a changed configuration; the WebRTC bridge fails and the video falls back to frames |

What is abstracted: payloads (a frame is a parameter set, a picture or neither, as
far as a milestone depends on it); how often a receive was armed (once or more is
`armed`); the number of ticks before the watchdog acts, which may be any. Receives
of a torn-down connection are `AndroidAutoLink`'s.

### MCChannels

Gives `ProjectionChannels` five startup policies (the compatible profile, the
default, and one for each switch turned round), five channel configurations that
between them have every channel, and two video modes.

### Renegotiation: who may end a connection to negotiate it anew

One record, `ren`: the state and progress of the Android Auto service, the copies of
them in the WebSocket server and in the service manager, and the timers of both.
Copies are written where the code writes them, by the slots on the service's
signals, in the order in which the service emits these (a milestone reset is
published before the state changes). A service that is replaced keeps its startup
timers, which then act on whatever instance there is. Spans of time (cooldown, quiet
time, the 120 s of a startup) are booleans that `TimePasses` ends in any order.

### ApiClients: the WebSocket clients

Sockets, the contract, subscriptions, and the two things the server keeps for those
who come late: the state, which it sends on subscription, and the H.264 parameter
sets, which it sends before a frame. Topics and patterns stand for one kind each.

A frame (`EncodedFrame`) carries any of the two sets: both, one alone, which replaces
the cached pair, or none; and it may be one that was on its way when the connection
ended. A connection may end by `disconnect`, whose signal clears the sets
(`Disconnected`), without that signal (`LeftSilently`), or be replaced by another phone's
while it stands (`Replaced`). `told` (what a client was last told), `shown` (what a
client that has just come can do with the last frame), `foreign` (the cached sets are
of an earlier connection), `unfollowed` (no `disconnected` came to clear them) and
`phone` (what the phone of this connection has sent) are history. `Excused` names the
cases in which a frame cannot be decoded and the server is not to blame, or is and
does nothing about it: nothing was sent yet, one set came alone, the connection is
over, or it ended without the signal.

### BluetoothScan: discovery, pairing, connecting

The WebSocket server starts the Bluetooth service on demand, keeps a raw pointer to
its manager for the scan timeout and calls `BluetoothHAL`, which calls BlueZ and does
not wait. BlueZ handles calls in the order sent: `radio` changes with the call and
only its reply is late. A timeout that calls a deleted manager is undefined
behaviour: `Crash`, or anything the call may do to BlueZ. `missed` is history: a stop
did not reach BlueZ, because it failed or there was no adapter.

### WirelessHotspot: the hotspot of the wireless mode

`profiles` and `active` are NetworkManager's, the other fields `WiFiHAL`'s and the
Android Auto service's. Each D-Bus call may fail: a hotspot may be added and not
activated, and `Delete`, whose result nobody looks at and which is skipped without a
connection, may leave the profile, active or not, while `stopHotspot` and the failure
path of `startHotspot` forget it all the same. `ForgetNetwork` deletes every profile of
one name as far as its calls succeed; the hotspots have one name, and
`hotspotConnectionPath` still names a profile deleted in this way. `astray` is history:
the profiles left or taken by these two. The Android Auto service keeps the manager it
was given (`searcher`); a WiFi service that was replaced is another `hal`.

### DeviceScan: the search over USB, in detail

What `AndroidAutoLink` abstracts in `polling`, `HubReported` and `ScanFoundDevice`:
the filters by vendor, a scan over the attached devices in any order (`LookThrough`, with a
choice of outcomes for each device), the AOAP query, its attempts and watchdogs, the
retry window. A query that was given up may still be
answered (`asked`). `unopened` is history: a scan stopped the detection timer for an
accessory that it could not open. A USB reset before a session is a device that goes
and comes.

### AndroidAutoSettings: the settings that bound decoding and heat

Pure: `ConfigureFrames`, `ConfigureThrottle` and `ConfigureThermal` resolve, clamp
and repair one group of keys each, the others staying at their defaults. `Given` is
what is configured for a key: nothing, or one value or two in order of precedence, of
which the first counts.

### AudioPath: ducking and mixing

Audio is counted in half frames. `AudioRouter` looks for a backend at most every
retry interval and once found trusts it; `AudioMixer` mixes when any stream speaks.
`ragged` (a media buffer ended inside a frame) and `media` (how the last media
buffer was routed) are history.

### ExtensionProcesses: extensions and their processes

The two maps of `ExtensionManager` against what is alive at the operating system. A
process may end at any time and its end is told later, by the event loop or inside a
call that waits. The slot deletes the `QProcess` that is telling it, which is
undefined: the core goes on or dies (`Told`). The wait after the kill in
`stopExtension` may time out as well: then the extension is no longer marked as
running and its process stays recorded until its end is told (`Stop`). `forgotten` is
history: an update or such a stop made a running extension one that does not run.

### MCParts

Nine components that share no state with the connection, the sessions and the
profiles, nor with one another, in one run: `ControlBringUp` and the eight modules from
`Renegotiation` to `ExtensionProcesses`. The variable `part` says
which of them a behaviour moves; the others stay in one initial state. So each is
checked alone, and the state spaces add instead of multiplying.

### ProfileStore, ProfileServices: profiles and the services they configure

`ProfileStore` has the data and operators of `ProfileManager`. Host and vehicle
profiles are kept by the same code twice over; both are a *book*, the profiles by
id with the active id. Each public operation is an operator on a book, and `Saved`,
`Torn`, `Dead`, `Found` and `Reloaded` are saving, dying while saving, dying, the
constructor and the second `loadProfiles` of the core. `saveProfiles` looks neither at
whether a file opened nor at whether it was written whole, and reports success: of the
files in `Refusable`, a save may leave each as it was or cut short (`Left`). The constant
`Unsafe` bounds when saves fail.

`ProfileServices` adds the service manager. An edit of a profile is one event of
the event loop: the change, the signal (`Announced`, `DevicesChanged` or, where the
code sends none, `Silent`), what `ServiceManager` does on it, the save. `core` says
which services run. Starting a service is an operator to the set of outcomes,
because a service may fail to initialise; `StartAll` is the loop over the devices.

| Actions | Code |
|---|---|
| `Boot`, `Quit`, `Crash` | `CoreApplicationRunner`: profiles, services, WebSocket server; the process ends, with a last save, or dies |
| `CreateHostProfile`, `UpdateHostProfile`, `DeleteHostProfile`, `SetActiveHostProfile` | the operations of `ProfileManager` on host profiles |
| `AddDevice`, `RemoveDevice`, `SetDeviceEnabled`, `SetDeviceUseMock` | those on their devices |
| `WriteVehicleProfile`, `DeleteVehicleProfile`, `SetActiveVehicleProfile` | those on vehicle profiles, whose signal has no listener |
| `ReloadServices`, `Start`, `Stop`, `Restart` | the service commands of the WebSocket and admin APIs |

What is abstracted:

- **Who edits.** The core itself only loads profiles; the editing operations are
  the class's public interface and are taken in any order.
- **Ids** are their position in the order of the map's keys, which decides the
  successor of a deleted profile. A UUID drawn for a new profile is any id.
- **Profiles** keep `isActive` and the devices. Every profile the program writes
  passes the lightweight checks of `loadProfiles`, so validation loses none.
- **Files.** A file cut short is no JSON array and counts as empty. A crash before a
  save is `Crash`. A file that exists can be read; one that cannot counts in the code
  as not there.
- **WebSocket connections.** `heard` is whether the server is connected to the
  signals of the Android Auto service there is.
- `unsaved` is history: the files that the last save did not write.
- `unannounced` is history: since a creation or deletion replaced the devices of
  the active profile without a signal, the services may lag behind.

### MCProfiles

Instantiates `ProfileServices`: the default devices and four lists that edits make
of them; and the profiles whose saves may fail.

## 4. Runs

| Run | What it checks |
|---|---|
| `recoveries` | USB, with soft re-initialisation before the full one and two timers pending at once: recovery flags, teardown, that nothing connects a service at rest, and the liveness of recoveries and searches; without symmetry |
| `sessions` | USB, with full re-initialisation after every control timeout and a database that refuses statements: the sessions, their rows and the refinement of the ledger |
| `tcp` | the wireless transport, with soft re-initialisation before the full one, all receives armed on connect, and a hotspot: a port that is still open accepts a phone while another is connected |
| `rearm` | (violated) connecting arms the control receive |
| `accept` | (violated) a connected session is active over any transport |
| `native2` | (violated) send timeouts that reach their threshold recover the transport |
| `profiles` | profiles, files and services under every edit, command, crash, orderly end and save that fails in silence |
| `heard` | (violated) the WebSocket server is connected to the Android Auto service that runs |
| `channels` | two connections of one service under five startup policies: what is advertised is heard, what is not ready is watched, what is announced is so |
| `readiness` | (violated) readiness is announced when it is reached |
| `parts` | nine components, each alone: the handshake and its watchdogs, renegotiation, clients, Bluetooth, hotspot, AOAP queries, settings, audio, extensions |
| `ducking` | (violated) media is turned down only under guidance |

The properties, in words:

- `SessionMirrorsConnection`: CONNECTED means an open, active, heartbeating
  session in memory, whose row says active, or still negotiating because that UPDATE
  was refused; at rest there is none. Many paths change the connection state, and the
  session changes as a side effect of each.
- `OneOpenSession`: an open row is the current session's, or a crash or a refused
  UPDATE left it open: no path through connections that overlap leaves one by itself.
- `EndedStaysEnded`, `ImplementsLedger`: of the rows, over restarts, crashes, refused
  statements and connections that overlap.
- `RecoveryFlagBacked`: a flag that blocks all further recoveries implies a
  pending timer that clears it. A callback that leaves by an early exit and
  forgets the flag leaves the service deaf for good.
- `TeardownHasNoChannel`: the flag under which all errors are ignored implies
  that there are no channels.
- `NoUnannouncedConnection`: over USB a late promise connects nothing.
- `NoRecoveryDuringTeardown`: while a teardown waits for its timer, aborted
  receives start no second recovery (the comment at RealAA 7820-7821).
- `RecoveryEnds`, `SearchDetects`: liveness. `RecoverySearches`: so is that a service
  which a recovery has taken to DISCONNECTED is back in SEARCHING, or in ERROR, when
  the recovery's timers are through; being CONNECTED is not enough. It says nothing of
  a service that was not disconnected: the timer of a recovery may find CONNECTED and
  tear the stack down under it (see 5).
- `AwaitingIsWatched`: a connected service that waits for the handshake has a
  watchdog of the current epoch; a retry must start another. `WatchdogIsOwn`: no
  watchdog of an earlier wait can give the connection up. `WaitEnds`: liveness.
- `ActiveExists`: an active id names a profile, after any deletions and whatever
  half of the files a crash left.
- `FilesCurrent`: a crash between two events loses no more than the last save failed to
  write. Each file which that save did write holds its book, whatever earlier saves
  left of the files, and whatever the two loads of a start made of that.
- `RunningIsConfigured`: a running service is one the active profile enables. The
  service manager learns of edits by two signals, restarts one service by name,
  and is told nothing by some operations.
- `RealHasPipeline`: the pipeline is created before the service, stopped with it
  and left behind when it fails; no order of these leaves a real service without.
- `NotReadyIsWatched`: a connected service after service discovery that is not ready
  has its idle watchdog. The watchdog stops when the projection is ready, and any of
  a dozen messages and errors may take a milestone away.
- `AnnouncedIsReady`: `projection_ready` is not announced, or stays announced, for a
  projection that is not ready. (That readiness is always announced is false; see
  the findings.)
- `AdvertisedIsHeard`: from service discovery on every offered channel with its own
  handler has a receive, a retry under way or a reported failure, whatever the
  startup policy and whatever the connection before has left. The property names the
  cases that wait by design; the microphone of a service that defers nothing is
  among them, which only a stream or a retry arms.
- `ConnectedIsSpared`: a startup check or its grace timer, which may run over a later
  connection or another instance, ends no connection that stands.
- `CopiesAreCurrent`: what the WebSocket server and the service manager remember of
  the connection, and hold renegotiations back by, is of the connection that stands.
- `RenegotiationSearches`: liveness; a renegotiation disconnects at once and searches
  from a timer, so that a lost timer would leave the service disconnected.
- `SubscribersKnowState`: whoever subscribed below `android-auto` was told the state
  that is, however subscriptions and connections interleave; nobody who did not agree
  to the contract was told anything.
- `FramesDecodable`: a client that has just come can decode each frame, and gets no
  parameter sets of another connection, except in the cases of `Excused`: sets that
  came one at a time, none yet, a late frame, a connection that ended without a signal.
- `DiscoveryIsTimed`: BlueZ searches only while a timer is there to end it, unless a
  stop could not reach BlueZ.
- `HotspotsAreKnown`: the hotspot profiles that an instance of `WiFiHAL` added are
  the one it knows, after every partial failure, but for those whose deletion itself
  failed and those that were forgotten by their name.
- `SearchGoesOn`: a search polls, will poll or waits for an answer. It excepts, by
  `unopened`, the one case in which the code does stop for good.
- `SettingsConsistent`: of any values, the repaired limits are in order, but for a
  soft cap of 12, which the hard cap can only meet.
- `HeardAtOnce`: while buffers end on frames, none waits in the mixer.
- `RunningIsRecorded`: running flags and the two maps of processes agree, whenever
  the end of a process is told, but for `forgotten` extensions.

**Bounds.** Two session ids: one for the session that is open, one for the next, which
is what a handover needs; every id is used once, so a run sees one complete handover and
the model then refuses further connections with an open store. The proofs remove this
bound. `StoreOpen = FALSE` (run `recoveries`) has no such limit: there connections
repeat for ever, and the connection itself does not depend on the store. Two one-shot
timers pending at once (`MaxTimers`): enough for every overlap of two recoveries.
`recoveries` and `rearm` have the commands launch and disconnect, `sessions` connect and
disconnect, `tcp` and `accept` all three; `sessions` and `tcp` have one timer, and only
`sessions` has UPDATEs that are refused, those that make a session active and end it.
All of it together multiplies the states, and the proofs cover it. A step that would
exceed it is not taken, but an expiry never adds more timers than it removes, so the
bound blocks no expiry and no fairness is lost to it. The counter `link.recoveries` goes
up to the threshold `FullReinitAfter`, above which the code does not tell values apart.
In `parts`, three requests, promises and request timers pending at once (`MaxPending`):
one chain of requests and what a connection before it left behind. Watchdogs are not
bounded, and no expiry is blocked: a watchdog starts no request. Two attempts and one
retry reach every comparison on both sides; `native2` has ten attempts, the default, so
that the attempts do not run out before the threshold. In `profiles`, two host ids,
which is an active profile and another, one vehicle id and five device lists, closed
under enough edits that each of the device operations is taken; an edit to a list
outside the five is not taken. Saves may fail, of either file or both, while no host
profile, in memory or in the file, is outside `Unsafe`, which here are those that are
flagged and have no devices: with two of them there is still a profile that is only in
memory or only in the file. With `Unsafe = Profile` every save may fail, which the
proofs cover. The devices of the lists bear the names of their services, as the default
profile's do, and each list has at most one for Android Auto. `RunningIsConfigured`
needs the first (`stopService` knows only these names) and `RealHasPipeline` needs the
Android Auto devices of a list to agree about mocking; the code checks neither.

In `channels`, two connections (what one leaves to the next), two failed receives or
sends (a failure while another is being retried) and one change of configuration.
`readiness` needs one connection and no failure. In `parts`:

- renegotiation: two phones found, two commands and a churn limit of 2, so that a
  startup check meets a second connection, a second instance and both sides of the
  limit; timers are not bounded but by the commands;
- clients: two sockets, each used once, three changes of the connection or hellos:
  a connection before, during and after a subscription;
- Bluetooth: two devices, two instances of the service, two replies to a start
  outstanding (the reply to a scan that was stopped, and to the next);
- hotspot: two instances, four profiles, two overlapping scans;
- AOAP: two attempts (three in the code) and three queries: one given up, one in
  progress, one after the retry window; vendors of all filters: allowed, not allowed,
  Google;
- settings: values at, beside and beyond every bound, each key unset, given once or
  twice;
- audio: four half frames per stream, that is two buffers that end inside a frame;
- extensions: two extensions, three processes, so that one is restarted while the end
  of its first process is not told yet.

`parts` is checked with CHECK_DEADLOCK FALSE: the settings are configured once, and
the bounds end what the clients and the instances may do.

**Fairness.** Only the timers: Qt's event loop runs a single-shot timer that was
started (in `parts`, the handshake watchdogs, of which finitely many are pending and none is
started by a wait that is already watched for the last time, and the relaunch timer
of a renegotiation). Nothing is assumed of the phone, the user, USB or the network, so no
property says that a phone is ever found.

## 5. Findings

- **rearm.** The control receive is armed only when its handler has to be created
  (RealAA 5211). `disconnect()` keeps the handlers, so the connection after
  ByeBye, launch and a new attachment has none, in spite of the comment at 5219.
- **accept.** The accept callback (3373) does not look at the state. A phone
  accepted while connected opens a second session and `transitionToState` then
  returns early, so it never becomes active.
- **native2.** The recovery at the threshold of consecutive send timeouts (5722)
  is nested in the branch for counts below the threshold (5683) and never runs.
  The error goes to `onChannelError`, which takes it for recoverable and re-arms
  the receives; no retry is left, and the service stays CONNECTED and silent.
- **heard.** `setupAndroidAutoConnections` (`services/websocket/WebSocketServer.cpp`
  1196) connects to the Android Auto service there is and is called once, at the
  start. Every restart and reload creates another instance, of which the UI hears
  nothing until the application restarts.
- **readiness.** With encoded frames, the default, the first picture completes
  readiness (RealAA 7304-7320) and nobody publishes it, though the signal is "emitted
  when projection channel readiness changes" (`AndroidAutoService.h` 293).
- **ducking.** Each buffer of guidance turns ducking on (RealAA 7921) and nothing
  turns it off: after the first prompt all other audio stays at 40 %, against
  `docs/comprehensive/AUDIO_ROUTING.md` 56.

### Seen while modelling, without a run

No document promises the contrary of these, or they lie outside what is modelled.

*Connection.* `connectToDevice` (RealAA 4618) enters CONNECTING for a callback,
`onUSBHotplug`, that nothing calls. A search of a CONNECTED service (4257) resets its
milestones. A full re-initialisation whose timer finds a search leaves it without a
stack (7831); one that finds CONNECTED destroys the stack of that connection and leaves
the state as it is (7757). A refused `endSession` leaves an open row that nothing closes
(7229), and a row whose UPDATE was refused says negotiating while a phone projects. The
check of the hub path ignores the vendor lists (4468). The watchdog of an AOAP query no
longer knows its query after the retry window reset the attempts (6210). The fast
reconnect after focus nudges that timed out (6622) goes through `onChannelError`, which
takes it for a recoverable error and re-arms. In the policy that defers nothing the
microphone is not armed on connect. The address a search takes for the phone may be the
hotspot's own (4291). Touches use the display's resolution, not the advertised one
(4716).

*Services.* One disconnect counts twice toward the churn limit (DISCONNECTING and
DISCONNECTED, `ServiceManager.cpp` 351-357). The WiFi manager given to the Android
Auto service at its start may be none yet, or be replaced later (299). `stopService`
knows three literal names (206). A crash while a file of profiles is written loses
all profiles of that file (`ProfileManager.cpp` 849), and a save that fails is reported
as done (861-864, 874-879).

*API.* A frame with only an SPS or only a PPS replaces the cached pair
(`WebSocketServer.cpp` 1251), and the pair of a connection that ends without the signal
`disconnected` is sent before the frames of the next one. `m_h264BroadcastCount` is
never reset: the first frame of every connection but the first may be dropped by the
throttle that this counter is to spare it. `topicMatches` (1157) lets `*` match
everything and knows no `**`; the note at its declaration (`WebSocketServer.h` 357) has
both.

*WiFi.* A replaced `WiFiHAL` leaves its hotspot; a hotspot whose `Delete` fails is
forgotten (`WiFiHAL.cpp` 682); `forgetNetwork` may delete the hotspot (474), whose path
is still taken for one; `stopHotspot` keeps
`connectedSSID`; of two overlapping scans the first timer ends both;
`WiFiManagerImpl.cpp` 185 takes `begin` and `end` of two temporaries.

*Extensions and audio.* The slot of a finished process deletes its sender inside
`waitForFinished`, and the destructor deletes once more; an update of a running
extension forgets that it runs. `AudioMixer` emits under its mutex, and mixes streams
that send whole frames one at a time, that is, not at all; `AudioRouter` never looks
at its backend again once it found one, and the volume of one role is set for all.

## 6. Proofs

`AndroidAutoLink_proofs` proves, for every set of session ids, either transport, all
configurations and any number of pending timers, what the runs check on small instances,
liveness excepted, whatever statements a database refuses and when: `TypeCorrect`,
`OneSession`, `FlagsBacked`, `TeardownClean`, `SessionFollows` (USB), `EndedFinal`,
`NoSurprise` (USB), `NoSecondRecovery` and `LedgerImplemented`. The assumptions are
those the modules name: the empty id is not an id, the transport is USB or TCP, switches
are Boolean, thresholds natural.

The argument. None of the invariants is inductive. `IInv` is the conjunction of what the
code relies on without saying so, in named parts: `LinkOK` (types), the bookkeeping
agrees with itself and with the connection state (`SessionOK`, `Follows`), the flags are
backed by timers (`Backed`), a teardown has no channels, a search that is under way has
cleared the flags of a timeout recovery (`Searched`), and what must hold between the
timers of an idle recovery. The bookkeeping is treated first, for any set of statements
refused at each step: `Step` describes what any call of `TransitionToSessionState` or
`CreateSession` may do to the rows, is closed under composition, and gives the row
properties and the refinement without another look at the connection. Then there is one
lemma per function of the code (`...OK`, `...Sound`), cited by one lemma per action;
`NextIInv` and `StepSound` put the actions together, and the theorems follow with PTL.

`ControlBringUp_proofs` proves `BringUpTypeCorrect`, `WaitIsWatched` and
`WatchdogsAreOwn` for all counts and any number of pending requests; the run `parts`
checks them. Here the
conjunction of the three (`Sound`) is inductive: the wait and its watchdogs are
only changed by `WaitOver`, `EpochPassed` and `Watch`, each of which keeps it, and
every handler is built from these. One lemma per function, one per action.

`ProfileServices_proofs` proves `TypeCorrect`, `ActiveProfileExists`, `FilesAreCurrent`
and, for device lists that agree about mocking (`OneMode`), `RealServiceHasPipeline`,
for any number of profiles and any set of lists. The invariant has two independent
halves. `Sound` says of the store that its books are well formed and the files its last
save wrote current, whichever saves may fail (`Unsafe`); there is one lemma per
operation on a book or a store. Of the services it says that they are in a set that is
`Closed` under the start and stop of every single service; the lemmas up to the steps
are about any such set, and these theorems use two, all cores and those with a pipeline
where one is needed. `StartAllIn` carries a closed set through the recursion of
`startAllServices`: the recursion has a solution (`RunExists`), and the least device at
which it left the set would be a single start that does.

`RunningServicesAreConfigured` needs a third set, and one that depends on the list:
the cores that `Fit` the devices of the active profile. It is closed under what that
list can start (`ClosedFor`: only enabled devices, and the Bluetooth service alone
where no device is for it). An announced edit of a profile reloads, which fits any
list; an edit of devices restarts the service of one name, and fits the new list
because that service is stopped and the lists agree about all other names (`Agree`,
one lemma per edit; `WithoutAgrees` goes through the recursion of `Without`). This is
where the hypothesis `NamedAfterService` is used: a device of the type of a service
and another name would be disabled and its service left running, since
`deviceConfigChanged` passes the name only. Every device that
`initializeDefaultProfiles` makes bears its service's name (`ProfileManager.cpp:85`,
`:136`, `:144`).

`ProjectionChannels_proofs` proves `ChannelTypes`, `UnreadyIsWatched`,
`AnnouncementIsTrue` and `AdvertisedAreHeard` for every policy, channel configuration
and video mode. The code arms, publishes and counts milestones in some thirty
operators, which call one another; the invariant is therefore on the service record:
`Live(policy, s, X)`, where `X` are the channels whose message a handler has taken and
not yet answered. Its parts: what was published agrees with what is (`Synced`), the
milestones and flags agree with what has been armed (`Orderly`), no awaited channel
outside `X` is owed a receive (`Listening`), and the optional channels wait only while
the policy lets them (`Prompt`). One relation, `Arms`, says what any composition of
arming operators may do; each operator of the module has a lemma that it keeps `Live`
or repairs it, and between events `X` is empty.

`Api_proofs` proves of `Renegotiation` `CopiesStayCurrent` and `ConnectionsAreSpared`
(an action property) for any number of commands, phones and timers, and of
`ApiClients` `SubscribersAreTold` and `FramesAreDecodable` for any set of clients.
The copies are written by slots in the order in which the service signals, so that
they disagree in between: `CopiesOK` is stated for a record in the course of a change
(`Moving`), and holds of the whole between events. What clients are told needs that
none subscribes or is told anything before the contract (`Tellable`).
`FramesDecodable` needs what the cached sets are at each moment, with whatever sets
each frame carried and however the connection before ended (`SetsFollowed`): those of
an earlier connection, or kept without a connection, are there only because no signal
cleared them; a phone that has sent nothing has no sets of its own; one whose last sets
came as a pair has that pair kept.

`Wireless_proofs` proves `DiscoveriesAreTimed` and `HotspotsStayKnown`. For the latter
the invariant adds that NetworkManager's profiles are told apart by their ids and that
none is of an instance yet to come (`Distinct`). Any `Delete` may fail, with or without
ending the connection; `StopHotspot` and `StartHotspot` are sets of outcomes, each with
its lemma.

`Devices_proofs` proves `SearchIsAlive`, `SettingsAreConsistent`, `AudioHeardAtOnce`
and `ProcessesAreRecorded`. A scan over the devices is again a recursion, carried
through by the least device at which the invariant would fail, for any number of
devices in any order; answers and watchdogs are never more than the queries made. Of
the audio, no mixer means no buffers. Of the extensions, each process that is recorded
belongs to the extension it is recorded for, forgotten or not, and none before it
was started. The settings need no
invariant: each group is consistent for whatever the configuration gives.

`MCParts_proofs` puts these together: a behaviour of `PartsSpec` is a behaviour of
every part (`PartsBehave`), hence `PartsTypes` and `PartsAreSafe`, all safety
properties of the run `parts` in one theorem.

So every invariant and action property of the passing runs has its theorem. Only
model-checked remain the five liveness properties (`RecoveryEnds`,
`RecoverySearches`, `SearchDetects`, `WaitEnds`, `RenegotiationSearches`): they rest on
fairness and ENABLED, which are out of the prover's reach; and the properties of the
violated runs, which are false. The hypotheses of single theorems (USB,
`OneMode`, `NamedAfterService`) are those under which the runs check them as well:
the lists of `MCProfiles` satisfy the last two.

## 7. Not modelled

`components` in PROJECT.json has the reason for each part.

- *Of the connection*: the video and audio payloads, input and display commands, the
  delays' lengths, the use that is made of the settings, and of the session store the
  table of devices, keyed data without control.
- *Of the API*: admin routes, TLS, the wording of messages and requests that are
  answered from one call.
- *Video and WebRTC pipelines, AudioHAL*: sequences of GStreamer calls whose
  concurrency is inside GStreamer. Whether the WebRTC bridge works is a choice of
  `ProjectionChannels`, whether there is a pipeline a part of `ProfileServices`.
- *Event bus*: one signal under a mutex, whose one listener (`CoreApplicationRunner.cpp`
  268-275) logs it.
- *Media, driving mode and Bluetooth telephony services*: the core constructs none.
- *Configuration, preferences, logging, diagnostics, message formats*: stored values
  and their output, without protocol.
- *GPS, CAN and UART*: serial I/O and parsing, which unit tests reach.
- *MockAndroidAutoService*: a test double.
