# Verification of the LiTime ESP32 gateway

TLA+ models of the gateway firmware and its remote dashboard, the TLC runs that
check them on small instances, and TLAPS proofs of what holds for every
instance. Paths below are relative to the repository.

## The system

An ESP32 polls one LiTime battery pack over Bluetooth LE, serves its status on
the local network, keeps a small history in LittleFS, can post the history to
an HTTPS server, and can answer live status requests that a Cloudflare Durable
Object relays from browsers.

| Component | Source | State it keeps | Operations |
|---|---|---|---|
| BLE link | `firmware/src/LiTimeNimBLEClient.*`, `LiTimeScanner.cpp` | client pointer, two characteristic pointers, `connected`, time of the last query | connect, disconnect, update, scan, onConnect, onDisconnect |
| NimBLE client objects | `firmware/libraries/NimBLE-Arduino/src/NimBLE{Client,Device,Scan,RemoteValueAttribute,Utils}.cpp` | `m_pClients`, per client: status, peer, delete-on-disconnect, retries, waiting task | createClient, deleteClient, connect, disconnect, GAP events |
| Battery reading | `parseNotificationData`, `LiTimeBLEProvider.cpp` | `currentData` (host task), `BatteryData` (loop task) | decode a frame, syncData |
| Main loop and event log | `firmware/firmware.ino` | last scan time, last reported connection | loop, routes, event records |
| Telemetry store | `firmware/src/StorageManager.cpp` | three data files, their rotated copies, a temporary file | sample, rotate, next batch, acknowledge, tail readers |
| Remote sync | `firmware/src/RemoteSync.cpp` | time of the last attempt | post the oldest batch every five minutes |
| Network manager | `firmware/src/NetworkManager.cpp` | SSID and password in NVS, setup key | begin, configure, forget, scan |
| OTA service | `firmware/src/OtaService.cpp` | started | start once, handle |
| Dashboard device client | `firmware/src/RemoteDashboard.cpp` | WebSocket, status provider | answer `get_status` |
| Dashboard relay | `cloudflare/remote-dashboard/src/index.js` | tagged sockets | forward device to browsers and browsers to device |
| Browser dashboard | `cloudflare/remote-dashboard/public/app.js` | socket, reconnect timer, poll timer | connect, request, show, reconnect |
| Runtime estimator | `cloudflare/remote-dashboard/public/runtime-estimate.mjs` | segments, last reading, direction, idle start | update, snapshot, reset |

Interactions. `loop()` runs everything on the Arduino loop task: the web server,
the WebSocket, `battery.update()`, a blocking ten second scan and connection
attempt while no pack is connected, the minute sample, the five minute post.
The NimBLE host task runs beside it, on the other core if it likes, and calls
into the same client objects and into `LiTimeNimBLEClient` without a lock. The
two tasks meet in a task notification on which `connect()` and `writeValue()`
block. The files outlive a reset; nothing else does but NVS.

What is hard. The two tasks' steps interleave between the test of a client's
status and what follows it; objects are deleted by either task; the waits must
all be released; connection losses may come at any of these points; a reset may
come between two file operations; posts and answers are lost; files reach their
caps; a page's old socket reports its end after a new one is open.

What makes each part correct:

- BLE link: outside `deleteClient`, which has a race of its own, the client
  pointers point to allocated objects; a connection is either held or on its way
  to be deleted; `isConnected()` never says yes for a link that is gone and the
  loop task closes no reported link; every wait of the loop task ends; after the
  faults stop the battery is connected again.
- Battery reading: a reading of two frames comes only of a copy that met the
  parser, and does not outlive the next one that does not; a reading is only
  invalid for a reason; a lost link is sampled once more at most, and its loss
  is logged.
- Store and sync: a record leaves the queue only when the server has it or an
  overflow discards it; records arrive in order; the queue keeps to its cap and
  never blocks; the files of all logs together leave room for the next line.
- Network manager: a restart finds credentials that belong together and joins
  the network that the page shows; the setup key stays good.
- Relay and page: every open page keeps polling and learns of each answer; one
  failing socket hurts no other.
- Estimator: the average is over readings of one direction and of the last two
  minutes only, and nothing stale is shown.

## Modules

| Module | What it is |
|---|---|
| `GatewayLink` | what the firmware may rely on of the link: the abstract specification of `BleLink`, and the part of `BatteryMonitor` below the data |
| `BleLink` | the BLE link: loop task, NimBLE host task, client objects, radio; implements `GatewayLink` |
| `BleLinkProofs` | its inductive invariant and safety theorems; that it implements `GatewayLink` |
| `BatteryMonitor` | the data of the battery over `GatewayLink`: parsing, copying, events, samples |
| `BatteryMonitorProofs` | its invariants and safety theorems |
| `DeliveryQueue` | what is promised of the remote queue, without files |
| `StorageManager` | the files, their rotation, the posts and the blocks of the flash; implements `DeliveryQueue` |
| `StorageManagerProofs` | its inductive invariant and safety theorems; that it implements `DeliveryQueue` |
| `RemoteAccess` | pages, relay and gateway: requests, answers, dead sockets, pings |
| `RemoteAccessProofs` | its type invariant, which says when a session is given up |
| `WifiStation` | setup access point, stored credentials, the station |
| `WifiStationProofs` | its inductive invariant and safety theorems |
| `Dashboard` | the page's sockets, timers and browser events |
| `DashboardProofs` | its inductive invariant and safety theorems |
| `RuntimeAverage` | the estimate as the repository's README describes it, over all readings |
| `RuntimeEstimator` | the estimator's fields and methods; agrees with `RuntimeAverage` |
| `RuntimeEstimatorProofs` | its inductive invariant and safety theorems; that it agrees with `RuntimeAverage` |
| `SumTheorems` | sums over finite sets, by induction on them |
| `MC*` | instances for TLC, one for each module that is run |

How they compose. `BleLink` implements `GatewayLink`, which is proved, and
`BatteryMonitor` is written over `GatewayLink`: what holds of the data, the log and
the samples is shown against every link that the abstract one allows, so also
against the one of the two tasks. `StorageManager` implements `DeliveryQueue` but
for two steps that lose records, which is proved for every flash and every reset.
`RemoteAccess` takes from `Dashboard` that a page reconnects and polls. The
definitions in a module named as variants (`RescanAlways`, `AckCopyAll`, ...) are
the plausible bugs that the properties were tried against; no action uses them.

### BleLink and GatewayLink

The loop task has a program counter, `pc`. Each value names the code it is about
to run; a step runs it up to the next point at which the host task could see or
change something:

    top  query  write  sync  check  scan        update() and the rescan decision
    drop dropMark clear delete doom             connect() gets rid of the old client:
    terminate terminateMark                       disconnect, clearConnection, deleteClient
    create start wait                           createClient, connect
    discover finish failed                      discovery, result
    panic                                       a freed object was used: reset

`clearConnection` and `deleteClient` are shared by a new connection and by a
failed one: `ret` says which. A client object is a slot of `m_pClients` with its
`status` ("free" for a null entry), `peer`, `doomed` (deleteOnDisconnect),
`pending` (m_connectCallbackPending) and `retries`; `link[s]` is the host stack's
connection of the object and is not visible to the loop task. The host task
handles one event at a time. `host` is the client whose lost connection or timed out
request it is dealing with, and `stage` how far it is:

    broken    its procedures have failed and the host has forgotten the connection
    told      the callback has run (HostDisconnect)
    marked    the status is DISCONNECTED (HostMark)
    expired   a request has timed out; the connection is to be terminated next

`HostDisconnected` then deletes the client and releases the waiting task. The loop task
can read and write the status between any two of these steps, and at "marked" it can
delete the client and use its entry again. `waiter` is the handler's copy of
`m_pTaskData`, by which it releases the task that waited when the event came and no
other.

The loop task blocks in three places, and `result` is what it is released with:

- *In `connect()`* ("wait"), from the assignment of `m_pTaskData` (`StartWait`); a host
  event that comes earlier ("start") releases nobody, and then the wait ends by its
  timeout (`ConnectTimesOut`).
- *In the discovery and in `writeValue()`* ("discover", "write"), which have no timeout of
  their own. `request` is the ATT request: it is transmitted (`Transmit`, "sent"), then
  put into the host's list of procedures (`ListRequest`, "listed"), and from then on the
  host task releases the waiting task in one of three ways: the response
  (`HostAnswers`), the 30 s timeout of the procedure (`HostExpires`, after which the
  connection is terminated), or the failure of all procedures of a lost connection
  (`HostBroken`). A response that comes before the request is listed finds no procedure,
  and the request times out. One request stands for the several of the discovery, and a
  write is not repeated after an authentication error, since each repetition is the
  same wait again.
- *For ever*, if the host task fails the procedures of a lost connection after the
  request was transmitted and before it was listed ("stray"): the timeout finds that the
  client has no such connection any more, and `onWriteCB` returns without releasing the
  task. The vendored code does this; no document of the gateway speaks of it, so that it
  is a hazard in the list and the exception (`Abandoned`) in `LoopReturns`. The loop task
  then stops in the model as it does on the chip, which is why the two runs do not
  check for deadlock.

`GatewayLink` keeps of this where the loop task is in `loop()`, what
`isConnected()` answers and what `BatteryData::connected` says. All of `connect()`
and `deleteClient` is one place, `LoopPlace` maps to it; inside it the answer of
`isConnected()` may be anything.

Not in the model:

- Times, but for two facts. A ten second scan outlasts the 1.5 s supervision
  timeout, so a scan ends only when losses that began before it were handled
  (`Settled`). `connect()` waits 15.3 s and the host's three attempts of five
  seconds end before it, so its timeout comes after the attempts.
- The value of `deleteOnDisconnect` read from a client that the loop task has freed
  since `HostMark`. Whatever it is, `deleteClient` finds no entry with that pointer,
  unless a new client was allocated at the same address between the host task's test
  of the flag and its search, a few instructions later.
- The failure of `scanner.begin()`, and of a termination for any reason but the
  three that the code treats as "already closed".
- `connect()`'s early return for an address already connected is never taken:
  the proofs show `~IsConnected` during a scan (`ReportInv`).

A use of a freed client object by `deleteClient` is `panic`, and `Reboot` starts
again from `Init`.

| Run | Question | Instance |
|---|---|---|
| `ble_gateway` | `TypeOK`, `NoDanglingClient`, `WriteThroughLiveAttributes`, `NoOrphanLink`, `ReportedLinkExists`, `NeverTerminatesReported`, `LoopReturns`, `ReconnectsUnlessHeld`, `ImplementsLink` | 2 batteries, 3 slots, 2 retries, 3 faults, refused queries |
| `ble_write_stuck` | `ReconnectsUnlessAbandoned`, violated | 1 battery, one refused query |

A fault is a lost link, a failed attempt, a failed discovery, a scan that misses
the pack, a refused query, or a request that times out. Two batteries are the least with which a scan can
change its choice; three slots are the build's `NIMBLE_MAX_CONNECTIONS`; two
retries are its default; three faults let a second loss hit the recovery from a
first one, exceed the retries, and leak each slot.

Fairness (`FairSpec`): the loop task and the host task keep running, as FreeRTOS
runs both; a termination completes, since the supervision timeout ends a link
that does not answer; the minute between scans passes. The radio is not fair:
links are lost at will, up to `MaxFaults`. The host task's fairness includes the
answer or the timeout of a listed request: the 30 s timer runs in any case.

`ReconnectsUnlessHeld` says that the gateway connects and stays connected once the
faults have stopped, in the behaviours that avoid three things the code can do:

- *It blocks for ever* in the wait for a stray request, as above.
- *It holds the pack unreported.* A refused query makes `update()` clear
  `connected` and keep the NimBLE client connected. The scan drops advertisements
  of connected peers, and only `connect()` would disconnect: the gateway scans
  once a minute and never finds the pack it is holding. The page says it will
  keep scanning and update when a status returns. `ble_write_stuck` shows this;
  only a lost link or a second pack in range ends it. With two packs a late
  `onDisconnect` of the one's client clears the flag of the other, which may repeat.
- *It runs out of slots.* A link lost while discovery fails is handled between
  `deleteClient`'s test of the status and its flag, and `deleteOnDisconnect` is set
  on an object whose disconnect has come already; or `disconnect()` writes
  DISCONNECTING over the DISCONNECTED of the host task, and `deleteClient`, on either
  task, waits for another disconnect. After three of these
  `createClient` returns null until a restart. No document of the repository speaks
  of the pool, so that this is a hazard in the list and a premise here, and no
  run of its own.

### BatteryMonitor

A field's value is the number of the notification it came from. Three fields stand
for all: the voltage, the scalars after it, the vector of cells. `bms` is
`currentData`, which the host task writes field by field (`Notified`,
`ParseScalars`, `ClearCells`, `PushCells`); `data` is `BatteryData`, which `syncData`
fills field by field on the loop task (`SyncConnected`, `CopyScalar`, `CopyCells`).
`met` says whether a step of the parser fell into the last copy.
The rest of `loop()` follows: `EventAndRescan`, the attempt to connect, the sample
(`RecordTelemetry`). `links` numbers the connections, and `ghosts` counts the samples
taken of a connection that is gone. Copying the vector while the host task refills
it is a data race: the copy gets the new cells or none, or the gateway crashes,
which is a `Reset`.

| Run | Question | Instance |
|---|---|---|
| `monitor` | `TypeOK`, `LogFollowsLink`, `StaleSampleOnce`, `InvalidOnlyInOverlap`, `TornOnlyInOverlap`, `LossLogged` | 3 notifications, 2 connections, 1 reset |

Three notifications let one pass copy parts of two and the next pass a third; two
connections let the second begin with the reading of the first. Fairness: the
loop task runs. `TornOnlyInOverlap` says of each copy that it is of one notification if
no step of the parser fell into it; a parser that gave up half way through a
notification would break it, since its half frame would be copied by pass after pass.
`StaleSampleOnce` is as strong as the code: a query that fails leaves the reading
valid through the scan, and one sample may be recorded of it.

### StorageManager and DeliveryQueue

The records are numbered in the order they are sampled. `current` and `previous`
are the lines of `/telemetry.csv`, `/remote.ndjson` and `/events.ndjson` and of their
rotated copies, `tmp` those of `/remote.tmp`, as flash holds them: LittleFS commits
a file at its close, a remove and a rename at once. `pc` is the loop task's place
inside `appendLine`, `publishNextBatch` and `acknowledgeRemoteBatch`; a reset can come
between any two of its steps. `got` is what the server has stored. A post can fail
before or after the server stored the batch.

The flash is a budget of blocks. A file takes whole blocks, and new content is
written to free blocks before the old ones are given up, as a copy-on-write file
system does; an append copies the last partial block. Lines of a log count as
equally long. Carriage returns that each rewrite adds to the lines it keeps, and
the bookkeeping of the directory beyond a fixed number of blocks, are left out.

`DeliveryQueue` knows a bounded sequence: records enter at the tail, the server
accepts a prefix, a prefix leaves once accepted, an overflow discards the whole
queue. `RemovedOnlyWhenAccepted` is that specification under the mapping
`queue <- PendingQueue`, where the queue is the copy while the file is replaced.

| Run | Question | Instance |
|---|---|---|
| `storage` | `TypeOK`, `HistoryKept`, `NothingDropped`, `RemovedOnlyWhenAccepted`, `InOrder`, `HeadNeverStuck` | 22 blocks, history of 3 lines, queue of 4, events of 1, batches of 2, 8 samples, 2 faults, resets anywhere but between remove and rename |
| `storage_lost_on_reset` | `RemovedOnlyWhenAccepted`, violated | one reset between remove and rename |
| `storage_lost_on_full_flash` | `RemovedOnlyWhenAccepted`, violated | 17 blocks, no fault |
| `storage_jammed` | `NeverJammed`, violated | the real partition, caps and line lengths, no fault |

Lines of five units in blocks of eight overshoot their caps and end inside a
block, as the real ones do. Twenty-two blocks are the least with which nothing is
ever dropped: with them the properties that need room can hold. With a queue of
four and batches of two, batches shorter than the queue, whole queues and
rotations of every file occur within eight samples; a queue of fewer lines would
overflow so early that losses hid behind overflows. A fault is a failed post, a
file that cannot be opened (if it is the queue itself, `/remote.tmp` may be empty
after it) or a reset. Fairness: `loop()` calls `RemoteSync::loop` in
every pass and a connected gateway posts every five minutes.

Three violations are what the code does:

- *A reset* after `LittleFS.remove` and before `LittleFS.rename` loses the records
  behind the accepted batch: nothing looks at `/remote.tmp` at the next start.
- *A rewrite that runs out of flash* is renamed over the queue all the same. Either
  way records leave the queue that the server never accepted, which the README of
  the repository rules out.
- *Jammed.* Each log keeps a rotated copy of up to its cap beside the file that
  grows. With the web page in six of sixteen blocks, the copies take seven, the
  three growing files one each, and every append fails while no file is near its
  cap: nothing is rotated any more. The run uses the default build, which posts
  nothing, and lines of 47, 160 and 77 bytes. The number of blocks the page and the
  directory take is an estimate from the sizes of `firmware/data`.

### RemoteAccess

The pages, the Durable Object and the gateway's WebSocket. `session` is the
gateway's socket; when it is `silent`, neither end has been told that nothing gets
through. The relay keeps a socket that is dead until its runtime notices
(`deadPages`, `deadDevices`), and a send to a dead socket may throw, which ends the
loop over the sockets: `RelayForwards` and `RelayBroadcasts` then reach any of those
behind it or none. `missed` counts pongs, of which the second in a row closes the
socket (`enableHeartbeat`); a scan for batteries blocks `webSocket.loop()` and can
cost a pong (`PongTooLate`). The WebSocket library and the Cloudflare runtime are
not in the repository and are modelled from how the code configures them.

| Run | Question | Instance |
|---|---|---|
| `remote` | `TypeOK`, `AnswersKeepComing`, `GatewayReachable` | 2 pages, 2 messages each way, 4 faults |

Two pages are the least for one's dead socket to cost the other an answer. Two
messages under way let an answer and a request pass each other; the relay waits
when the gateway's side is full, the bound of the model in place of a buffer. A
fault is a closing page, a silent or reset connection, a relay that restarts, a
missed pong. Fairness: pages reconnect and poll, the relay handles messages as
they come, the gateway's loop runs, runtimes notice dead sockets.

### WifiStation

`nvs` is the three NVS entries, each written or removed at once, and a reset may
come between any two (`pc` `storeKey`, `savePassword`, `forgetPassword`). `savedSsid`,
`setupKey`, `ap` and `target` (what `WiFi.begin` was called with) are memory. The
Wi-Fi stack joins `target` when that network is in range and the password is right
(`StackJoins`); `OtaBegins` is the only thing that `loop()` does of its own. `entered`,
`torn` and `told` record the past for the properties. NVS writes are taken to
succeed: the code ignores their results.

| Run | Question | Instance |
|---|---|---|
| `wifi` | `TypeOK`, `StoredAsEntered`, `JoinedIsSaved`, `KeyStable`, `RejoinsSaved` | 2 networks, any password for each, 3 faults |

Two networks are the least that can be confused; three faults let a reset follow an
outage or another reset. When the access point fails to start, `begin()` returns
before it starts the station, and nothing tries again: the model stops there, so
that the run does not check for deadlock, and `RejoinsSaved` has the access point
in its premise. Fairness: the loop task goes on and the stack keeps trying.

### Dashboard

The page is one thread: each action is a whole event listener or timer callback
of `app.js`. `readyState` has every socket the page has constructed, because a
replaced socket still has events to come; `socket` is the variable of that name.
`pollers` are the intervals the browser runs, each named by the socket whose open
event started it, and `pollTimer` is the one that `statusPollTimer` can still
clear. A socket that `close()` is called on is CLOSING until its close event, or,
if it was still CONNECTING ("ABORTED"), fails at once as the WebSocket standard
says. A socket that replies to nothing may stay CLOSING for minutes; whether it
outlasts the next connection is the constant `Stalls`.

The delay of a reconnection is any delay, so the back-off has no value here;
what a status contains is the estimator's concern, and rendering is left out.

| Run | Question | Instance |
|---|---|---|
| `dash_prompt` | `TypeOK`, `NoOrphanSocket`, `NeverStranded`, `PollsWhileOpen`, `OnePoller`, `RelayLossShown`, `KeepsAsking` | 4 faults, closing ends before the next connection opens |
| `dash_silent` | `PollsWhileOpen`, violated | closing outlasts the next connection |

A fault is an offline event, a closing relay, a lost or refused connection. An
offline event uses up two sockets at most, so `Socket` is never exhausted. Four
faults let a late close event meet the second socket after its own and still be
followed by another loss. `TypeOK`, `NoOrphanSocket` and `NeverStranded` hold for
any `Stalls`: that is proved below.

Fairness (`FairSpec`): the browser runs timers that are due, the network comes
back, connections that can open or close do, and a request on an open connection
is answered. Faults are bounded and not fair.

The violation: `scheduleReconnect` runs for the close event of every socket, and
clears the interval of the current one. A late close event of a replaced socket
stops the polling of an open connection, and the reconnection it schedules finds
the socket open and does nothing: the page shows "reconnecting" over old data
until that connection ends. (The same cause has a second effect: if a connection
opens before the close event of the one before, it overwrites `statusPollTimer`,
and the earlier interval runs for as long as the page is open.)

### RuntimeEstimator

`est` has the fields of the class; `now` is the page's clock and `booted` the start
of the device's, which `updatedAt` is read from. `Updated` is `update()` after its
validity test, one operator for each statement that may start over: `Refresh`
(stale, or a smaller `updatedAt`), `Resume` (after idling), `Turn` (other
direction). `StartOver` is an invalid status or the page's own loss of the relay.
`segments` is a set, since their order is of no consequence. Currents are integers and
an average is kept as the integral and its span; the amp-hours it divides and the
wording of the result are left out.

`RuntimeAverage` states the README's description without segments or resets: it
finds the session of the last reading and adds up the current of every instant of
its last `Window`. `MatchesReadme` compares the two for every moment from a reading
until it is stale. `history`, the readings that it needs, is not in the code.

| Run | Question | Instance |
|---|---|---|
| `estimator` | `TypeOK`, `MatchesReadme`, `OneDirection`, `SegmentsDisjoint` | window 4, warm-up and staleness 3, messages up to 3 apart, 4 readings, 3 currents |

As in the code, the warm-up and the staleness are equal and shorter than the
window. Four readings suffice for a segment to leave the window, for one to be cut
by it, and for idling that ends in a resumption. One current lies inside the idle
band and is not zero. A reading may take one unit to arrive, so that two can arrive
together. The page is closed at `MaxTime`, so deadlock is not checked. No liveness
is asked and none is assumed.

The code knows a restart of the device only by an `updatedAt` that is smaller than the
last. It relies on two things: that a start lasts longer than a reading takes to be
stale, less what messages are delayed (`MinUptime`), and that no two starts stamp a
reading with the same millisecond. `estimator` has the least `MinUptime` that
`RestartsShow`, the hypothesis of the proof, allows. With one unit less the window can
go on across a restart and TLC finds `MatchesReadme` violated; without the second a new
reading is dropped as a duplicate.

## Proofs

`BleLinkProofs` proves, for any finite set of batteries, any number of slots,
retries and faults, under `BatteryAssumption` and `BoundsAssumption`:

    Spec => []IInv      (Invariance)
    Spec => []TypeOK, []NoDanglingClient, []WriteThroughLiveAttributes,
            []NoOrphanLink, []ReportedLinkExists, NeverTerminatesReported

`NoDanglingClient` exempts the steps of `deleteClient` between the test of the status and
the end ("terminate", "terminateMark"): there the host task may delete the object, and the
code uses it after that, which the model reaches as `panic`.

None of these is inductive by itself. `NoDanglingClient` needs to know, at each
`pc`, whether the client pointer may be null and who may have freed its object;
`ReportedLinkExists` needs each client's status to agree with the host's link of
it, and that holds only with what the host task is in the middle of. `IInv` adds:

- `SlotInv(s)`: a slot's status against its link, its pending callback and its
  deletion mark. A link can only be opening for the client `connect()` waits on,
  and a link of any other slot is marked for deletion.
- `LoopInv`: where the client is non-null, where its object is allocated, where
  the characteristic pointers are its own; where the loop task returns to.
- `WaitInv`: where a request or a verdict can be outstanding, and what a verdict says of
  the connection: a task that `connect()` released with a failure has none.
- `ReportInv`: where the gateway reports nothing. It makes `disconnect()` at a
  rescan harmless, hence `NeverTerminatesReported`.
- `HostInv`: what the host task relies on at each stage, above all after the callback. The
  client it is done with has no event to come, though its entry may hold a new client by then; a task
  it is to release still waits for that client, so that the release reaches no other.

`InitInv` is the initial case; `TypeStep`, `SlotStep`, `LoopStep`, `WaitStep`, `ReportStep` and
`HostStep` each prove one part of `IInv'` by a case per action.

Its second part proves `Spec => ImplementsLink` from the same invariant. Four
lemmas go through the actions: those of `update()` map to their namesakes
(`RefinesLoop`), those from a scan to the end of `connect()` to the transitions into
and out of "connect" (`RefinesConnect`), those within it to `Connecting`
(`RefinesInside`), and the host task can make `isConnected()` true only while the loop
task waits in `connect()` (`RefinesHost`). The invariant is needed throughout: that no
scan finds the battery connected, that a pending callback belongs to the client
`connect()` waits for, that "check" is never the place `deleteClient` returns to.

`BatteryMonitorProofs` proves, for any number of notifications, connections and
resets (`MonitorAssumption`),

    Spec => []TypeOK, []LogFollowsLink, []StaleSampleOnce, []TornOnlyInOverlap,
            InvalidOnlyInOverlap

each from an invariant of its own: `TypeInv` (besides the types, that a connection
is being made only while another may be numbered), `LogInv` (what the log, `previous` and `reported`
may say at each place of the loop), `GhostInv` (a sample of a lost link is taken
only if the loop has not been back at `update()` since), `ValueInv` (which fields are
nonzero at each place of the parser and of the copy), `WholeInv` (which notification
each field is of between the steps of the parser, and of the copy while it met none).

`StorageManagerProofs` proves, for any flash, caps, line lengths and batch limit, and
any number of samples and faults (`FlashAssumption`, `UseAssumption`),

    Spec => []TypeOK, []HistoryKept, NoOtherLoss
    Roomy \/ NoStaleCopy  implies  Spec => InOrder

The first three hold on the real flash as well, whatever appends fail and wherever the
chip is reset. `NoOtherLoss` is the refinement of `DeliveryQueue` with two steps more,
`LostOnFullFlash` and `LostOnReset`: the queue file is removed although the flash had no
room for the copy of its rest; a reset falls between the remove and the rename. So the
two losses that `storage_lost_on_full_flash` and `storage_lost_on_reset` find are all
there are, besides the overflow: in every other step a record leaves the queue only when
the server has it. `OrderSafety` has a hypothesis, of which either part is enough:

- `NoStaleCopy`: no reset comes between the copy and the rename of the queue. Without
  such resets the order is kept on any flash, the real one included: a copy that
  does not fit loses records but never brings back old ones.
- `Roomy`: the fixed blocks, every log at its longest with its rotated copy, a copy
  of the queue that a reset left behind, and the copy that is being written (or one
  block for an append) fit the flash. With the real caps and line lengths that is
  22 blocks, 6 + 2 x (4 + 2 + 1) + 1 + 1, and the real partition has 16.

`TypeOK` says that a file exceeds its cap by less than a line, which an append keeps
only because `rotate` comes first; `FileInv` is `TypeOK` with what holds at each place:

- `PlaceInv`: a rename begins with a full file and a removed older one, an append with
  a file below its cap, and a batch is a prefix of the queue.
- `CountInv`: the sample whose lines are still to be appended is counted already.
- `QueueInv`: the queue and its copy hold records only, and a copy has fewer lines
  than a full queue.

That a roomy flash drops nothing (`RoomSuffices`) follows from `FileInv` by arithmetic: a
file has at most `FullLines` lines, and what is removed or replaced is never larger than
what `Roomy` sets aside for it. `InOrder` and the refinement need three more parts. `RisingInv`: the queue
is in the order of the samples, and a sample still to be appended is newer than the
queue and than all that the server has. `CopyInv`: from "accepted" on the batch is with
the server, and the copy is what the batch leaves or the flash has no room for that. `FreshInv`: every record of the
queue, and of a copy about to become the queue, is with the server already or newer
than all the server has. It is false on a small flash after a reset between copy and
rename, where an old copy survives a rewrite that fails, hence the hypothesis of
`OrderSafety`. The refinement goes by `RefinesAppending` (an offered record is stored or
not, or the full queue is rotated away), `RefinesPosting` (the server takes a prefix,
the prefix leaves at the remove, the rest is a stutter, unless it had no room) and `RefinesReset`.

`HistoryKept` needs `HistoryInv`: the older file ends before the current one begins, a
sample still to be appended is newer than both, and the two hold enough of what was
stored. A rotation gives up the older file only when the current one is full
(`BelowCap`), which is where the bound comes from.

`RemoteAccessProofs` proves `Spec => []TypeOK` for any set of pages and any number of
messages and faults (`RemoteAssumption`): only open pages wait for a status, and no
session outlives the pongs it may miss. `TypeOK` is inductive by itself.

`WifiStationProofs` proves, for any set of networks and any number of faults
(`WifiAssumption`),

    Spec => []IInv, []TypeOK, []StoredAsEntered, []JoinedIsSaved, KeyStable

`JoinedIsSaved` needs `target` to agree with `savedSsid` and the NVS at every place of
the two writes; `KeyStable` needs that the access point has only run with a key
that was stored before.

`DashboardProofs` proves, for any number of faults (`DashboardAssumption`),

    Spec => []IInv, []TypeOK, []NoOrphanSocket, []NeverStranded
    ~Stalls  implies  Spec => []PollsWhileOpen, []OnePoller, []RelayLossShown

`NoOrphanSocket` needs `NewestSocket`: `connect()` constructs a socket that comes
after every other. `PollsWhileOpen` needs `PollerInv`, that the only interval is
the one `statusPollTimer` names and that an open socket has no predecessor left
with events to come; the second is what `~Stalls` gives.

`RuntimeEstimatorProofs` proves, for all times, currents, bounds and delays
(`EstimatorAssumption`),

    Spec => []IInv, []TypeOK, []OneDirection, []SegmentsDisjoint
    RestartsShow  implies  Spec => []MatchesReadme

`OneDirection` says nothing of the last reading, whose current the next segment
will have; `Estimator`, the invariant of one estimator, adds that it too has the
window's direction. The lemmas follow `update()`: what the three tests leave is
empty or in the reading's direction (`TestsKeep`), and adding to that keeps
`Estimator` (`AddKeeps`). Neither needs the device's clock, so they hold with
undetected restarts too.

`MatchesReadme` compares fields that `update()` changes a little at a time with a
recursion and a sum over the whole history. Its invariant (`JInv`) adds two parts.
`Timely`: readings come in order, and the start that stamped the last one goes on or
lasted `MinUptime`.
`Follows`: what each field says of the history. The sums of the present window are
not enough there, since a later reading cuts the same segments at a later time:
`SumsOf` gives, for every time from the present window's beginning to the last
reading, what the segments cover after it and the integral over that. The steps are:

- `SessionNext` obtains the recursion of `SessionStart` from its definition as a
  recursive function.
- `TestsBreak`: the three tests of `update()` start over exactly where `Breaks` ends
  a session. Idling and direction follow from `IdleOf` and `DirectionOf`; a
  restart within `Stale` of the last reading shows on the device's clock because of
  `RestartsShow`, which says `Stale + lag <= MinUptime + 1` for every delay.
- `FollowsFresh`, `FollowsJoins`: the reading then added keeps `Follows`. A window that
  begins before the last reading grows by the whole new segment (`WindowSums`,
  `IntegralJoins`), one that begins after it holds nothing else (`WindowEmpty`).
- `SnapshotFollows`: `Follows` makes `Snapshot` and `Estimate` equal at every time.

The sums need induction on finite sets. The library's induction theorems take
an operator as a parameter, which the provers cannot instantiate; `SumTheorems` states
induction for a set in place of a predicate (`SubsetInduction`, `NatSetInduction`) and
proves it from the well-foundedness of strict inclusion, which is first-order.

Model-checked only: the liveness properties (`LoopReturns`, `ReconnectsUnlessHeld`,
`LossLogged`, `HeadNeverStuck`, `KeepsAsking`, `AnswersKeepComing`,
`GatewayReachable`, `RejoinsSaved`), since fairness and ENABLED are beyond the prover;
and `NothingDropped` and `RemovedOnlyWhenAccepted`, which are true only of a flash larger
than the real one and without the reset of `storage_lost_on_reset`: the run `storage`
shows them under these conditions, and the theorem is `NoOtherLoss`, which needs neither.
Every other property of a passing run is a theorem. RECURSIVE operators are avoided
in modules with proofs.

## Not modelled

- The NimBLE host and controller, mesh and tinycrypt: vendored C, nearly all of the
  source lines of the repository. The gateway meets them through a handful of
  calls and GAP events, which are modelled as the C++ wrapper handles them. The
  models cover the gateway's own code, and so a small share of all lines; a model
  of the host stack would be a project of its own and say nothing of this program.
- The part of the C++ wrapper that the gateway does not use (server, security,
  asynchronous connects, extended advertising).
- The OTA transfer, in the ESP32 core; only the flag that begins it is modelled.
- The scan for networks on the setup page: its state is the Wi-Fi stack's.
- The local web page: pollers and two forms that keep no state.
- Configuration, logging, build and deployment; the bytes of a frame and the
  formats of files and messages; the JSON parser of the setup form.

Hazards without a property are listed in PROJECT.json with the reason: the request
that is listed too late, the race inside `deleteClient` and the client entries it leaks,
a `connect()` that times out against the host's event, history and queue that part on a
full flash, a reading that is older than
its connection, an access point that fails, an NVS write that fails, and the age of
the reading on a page whose gateway has left.

## Plan

Done: the link with its abstract specification, the battery's data, the files and
the queue, the relay with pages and gateway, Wi-Fi, the page, the estimator; the
safety theorems of all of them and the two refinements. Next:

- `StorageManager`: a bound on what a reset between the remove and the rename can lose.
