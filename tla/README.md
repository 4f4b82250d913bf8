# Cardputer Bridge: formal models

TLA+ models of Cardputer Bridge, the TLC runs that check them, and theorems proved with TLAPS.
Cardputer Bridge turns an M5 Cardputer ADV into a Bluetooth keyboard and a Wi-Fi microphone for a
Mac. Its parts are the ESP32-S3 firmware (`firmware/`), the macOS app (`macos/`) and a Core Audio
driver with its broker (`audio-plugin/`). What matters is privacy and sound: the microphone is on
only when it was asked for and the Mac still answers, nothing sticks or is typed by mistake, and
the audio that is played is what was recorded.

The models follow the code. `PROJECT.json` names, under `map`, the lines each definition stands
for. It also lists the components, the hazards, the runs, the mutants (for every checked property,
a plausible bug in a mapped definition that breaks it), the findings and the theorems.

## 1. The system

### Inventory

| Component | State | Operations | Hard behaviour | What makes it correct |
|---|---|---|---|---|
| Microphone authorisation (`bridge_domain.cpp`) | intent, control link, Wi-Fi, receiver, capture gate | `dispatch` of nine actions | facts come from four tasks | the gate is open exactly when all facts hold |
| Control lease (`control_lease.cpp`) | authenticated, time of the last heartbeat | authenticate, heartbeat, expired | which lease applies changes with the intent | a silent Mac loses the microphone |
| Main task (`main.cpp`) | the above, `last_authenticated`, queues, flags | one turn every 10 to 20 ms: commands, status, G0, keys, disconnect event, authentication edge, heartbeats, lease, remote intent, capture, serial harness | every flag is written by other tasks between its reads | capture follows the gate; a lost edge is made good |
| BLE bridge (`ble_bridge.c`) | advertising, connection, authentication, pairing prompt, disconnect event | GAP, HID and GATT callbacks of two tasks, `confirm_pairing`, `notify_state` | three tasks share the flags without a lock; the event is read and cleared in two accesses; notifications are lost | the device can be found; an authenticated Mac is the one of this link; the prompt is what the stack waits for; a loss is noticed, if only by the lease |
| Input router, G0 guard (`input_router.cpp`) | pressed key, G0, mappings, learning | key and button edges, learning, new table, disconnect, authentication | edges that interrupt a chord; a list of four effects; contact bounce | no key sticks; one press, one change |
| Shortcut configuration (`shortcut_config*.cpp`, `ShortcutConfigController.swift`) | Mac file, staging area, chunks, flash, active table, versions | edit, sync, prepare, chunk, commit, restart | drops from the queue, mixed transfers, power loss | only whole authored tables are in force |
| Audio capture and transport (`device_audio.cpp`) | capture switch, ring, session, sequence | capture task, transport task, offer, probes, end markers | two tasks of two priorities, and an offer that comes in the middle | no sound under another session's offer; a stopped recording is closed |
| Jitter buffer, receiver (`AudioStreamBuffer.swift`, `AudioReceiverController.swift`) | window, reservoir, drain timers | datagram, end, probe, timer | loss, copies, reordering, old timers | no frame in time is lost; the microphone is released |
| Shared audio ring (`AudioBridgeSharedMemory.cpp`) with the driver | slots, two cursors, activity, lease | open, write, stop, close; attach, render, detach; deactivate | no lock between processes, crashes, stalls | order of the cursors; samples of their place |
| Broker (`AudioBridgeFDBroker.cpp`) | lock file, socket file, listener, client, backlog | start, probe, bind, listen, serve, stop; connect, map, write on the app's side | processes that overlap, crash, or lose their files; user switches; one worker for all | the path leads to the broker that serves; the user at the console is answered and not silenced |
| BLE session of the app (`BLEBridgeController.swift`, `BLESessionReducer.swift`, `MicrophoneIntentAuthority.swift`) | phase, handles, write queue, heartbeat, intent | CoreBluetooth callbacks, timer, buttons | stale managers, writes that wait for writes, notifications that are stale | nothing of an earlier connection opens the microphone |
| Audio sessions (`AudioSessionRecovery.swift`, `AudioReceiverController.swift`, `CardputerBridgeApp.swift`) | session, offers, candidates | offer, validate, rotate | retries against late answers | app and device come to agree on a session |
| Firmware update (`firmware_update.cpp`, `FirmwareUpdateController.swift`) | running, slot, confirmation | start, download, verify, switch, confirm | power loss, crashing images, failed connections | a bad image never stays; the device always has one to boot |
| Other: screens, LED, parsers, codecs, installer, harness, scripts | - | - | - | pure functions or I/O |

### How they interact

The app writes commands (microphone intent, shortcut transfer, learning, audio offer, update) and
heartbeats to GATT characteristics. The BLE host task stores them in atomics and a bounded queue
that the main task reads once a turn. The main task publishes its state in notifications; what the
app knows of the device is the last notification it got. The main task sets the capture switch;
the capture task, the transport task and UDP carry the frames to the app's receiver, whose jitter
buffer feeds the producer of the shared ring. The driver in `coreaudiod` renders from that ring for
whatever records. The broker, a thread of the driver, hands the ring's file descriptor to the app of
the user at the console and deactivates the ring when that app is gone. Before any of this sound flows
the app offers a session over BLE, the device proves over UDP that it can reach the session's port,
and the app answers over BLE that the receiver is ready. An update runs in a task of its own, beside
all that, and the main task confirms the image it runs.

### Hard behaviours

They are listed under `hazards` in `PROJECT.json`, each at its line, with the properties that cover
it. The main ones: reads and clears of one flag in two accesses; samples of a level that miss an
edge; a lease chosen by a value that changed; commands dropped after they were acknowledged; power
loss in a commit or an update; lapping a reader without locks; timers of an earlier recording; writes
that are never called back; an offer in the middle of a turn of the transport task; a process that
cleans up after itself when its successor has started.

## 2. The modules

| Module | Stands for |
|---|---|
| `BridgeDomain` | `BridgeDomain::dispatch` as operators on a record |
| `CaptureAuthority` | abstract: capture is switched on only by a decision that sees all five facts, and off when one is gone |
| `DeviceControl` | the turn of `app_main`'s loop, one step per access to shared state (`pc` names the next), with the BLE host, the HID loop and the Wi-Fi and audio tasks |
| `DeviceControlHistory` | `DeviceControl` with history variables, for two properties about the past |
| `InputRouter` | `InputRouter` as operators that return the new router and its effects |
| `InputLoop` | the part of the turn that reads G0 and the keys, the G0 guard, the reports as the Mac sees them |
| `LossyStream` | abstract: a stream whose reader may skip and never goes back |
| `SharedAudioRing` | producer, consumer, broker: one shared-memory access per step; a slot holds the index it was written for |
| `AuthoredRegister` | abstract: a register that holds whole authored values of rising version |
| `ShortcutConfig` | the Mac's file and sync, the BLE writes, the device's queue, staging, commit, flash and announcement |
| `JitterBuffer` | `AudioJitterBuffer.push` and `finish` as operators |
| `AudioReceiver` | the device's sending of frames with copies, end markers and probes, the network, the receiver and its drain timer |
| `IntentAuthority` | `MicrophoneIntentAuthority` as operators on a record |
| `BLESession` | `BLESessionReducer`: what each event does to radio, phase and device |
| `AppControl` | `BLEBridgeController`: its callbacks, timer and buttons, the writes under way, and a device that answers, decides for itself, resets or is lost |
| `AudioTransport` | `device_audio.cpp`: offer, receiver mark and capture switch in the main task, the Wi-Fi events, the capture and the transport task with their ring; one step per access to a flag another core writes |
| `AudioSession` | `AudioTransport` with the network and the Mac: offers, validation of a flow, `audio_ready`, rotation |
| `UpdateContract` | abstract: what runs is trusted or a newer image on trial; trust is earned by health; a failed trial goes back |
| `FirmwareUpdate` | `update_task`, the main task's start and confirmation, the flash, the bootloader's choice, power loss and crashes; the radio's power save that both tasks set |
| `AudioBroker` | `FDBrokerServer` in several processes, the apps of several users, the console, the installer; one step per access to the file system or turn of the worker |
| `BLELink` | `ble_bridge.c`: Bluedroid's task, the event loop's task and the main task over the flags of advertising, link, authentication and pairing |
| `MC*` | finite instances; `*Proofs` the proofs |

Composition: `DeviceControl` extends `BridgeDomain` and refines `CaptureAuthority`; `InputLoop` extends
`InputRouter`; `AudioReceiver` extends `JitterBuffer`; `AppControl` extends `BLESession` and
`IntentAuthority`; `AudioSession` extends `AudioTransport`; `SharedAudioRing` refines `LossyStream`;
`ShortcutConfig` refines `AuthoredRegister`; `FirmwareUpdate` refines `UpdateContract`.
`DeviceControl`, `InputLoop` and `ShortcutConfig` are three views of one loop. They are kept apart
because their state spaces multiply. What one leaves out is free in the others: the intent may change in
`InputLoop` at the point where the lease and the remote request are handled, and physical stops and
toggles happen at any turn in `DeviceControl`. In the same way the device in `AppControl` changes its
intent at any time and loses what it publishes; how its loop gets there is `DeviceControl`. `BLELink` has how
the flags come about that `DeviceControl` samples; `AudioSession` ends where `AudioReceiver` begins, at a validated
flow; `AudioBroker` has which app writes to which buffer, `SharedAudioRing` what happens inside one.

### Abstractions worth knowing

- Time is ticks. `DeviceControl` reads the clock at the top of a turn, as the code does; a turn lasts up
  to `Turn` ticks. `AppControl` has no clock: a heartbeat is due whenever the arbitration lets it
  start, and times out at any point after it started.
- A configuration's hash and chunks are the configuration itself, all of one length. A staging area
  filled from two configurations holds neither, and its hash fits nobody's.
- In `SharedAudioRing` the ring is used by one producer at a time. A producer whose authorisation was
  revoked keeps its mapping; `revoked_muted` shows what that means, and two writers would break the
  premise of every cursor access.
- A CoreBluetooth request is called back, fails, or, after a device reset, is never called back. The
  radio's state and the callback that announces it change together. Commands other than the microphone
  intent share the queue and are not told apart.
- Scheduling of the device's audio: the transport task preempts the capture task on their core, so
  capture takes a step only while transport waits or sleeps. The main and the Wi-Fi task run on the
  other core and interleave with both anywhere.
- `AudioTransport` assumes one order of times (`DelayOver`): the 10 ms between two proofs and the 100 ms between
  two attempts to connect are longer than the main task stays inside `device_audio_apply_offer` and than capture
  takes from numbering a frame to pushing it. A frame is begun when all four conditions hold, Wi-Fi among
  them; when it is complete the switch, the receiver and the generation are read again, and Wi-Fi is not.
- A generation of offers is named by the session whose offer it published; the code counts them. A device
  applies each session's offer at most once, so the two tell the same generations apart.
- An offer or an `audio_ready` may be dropped, because the queue of eight it shares with all other commands is full
  (`Sends`), or refused, because Wi-Fi power save could not be switched (`OfferRefused`, which has let go of the
  receiver by then, and `MarkRefused`). Nobody tells the Mac. The model leaves open when, and how often.
- `BLELink` assumes an order of times, too (`Connect`): a Mac does not connect in the few instructions between a task's look at the
  flags and its start of the advertising. Its callbacks are one step to the main task, which has the lowest
  priority on their core.
- A proof that is lost shows as a gap in the numbers the Mac sees, so the model keeps only whether a
  number follows the one before. A candidate that runs into its timeout starts anew like one with a gap.
- Of the images there is the version, and whether it comes up (`Good`), crashes in its first ten seconds
  (`Crashing`) or runs without a keyboard (neither). What esp_ota and the bootloader do to otadata is modelled as
  ESP-IDF documents it for a build with rollback, and marked external.
- Of a buffer in `AudioBroker` there is only whether a recorder hears it. The lease expires on its own when an
  app stops writing, which only makes a buffer silent.
- A frame is its sequence number. Fades, levels and what concealment sounds like are left out.

## 3. The runs

Passing runs, with their number of distinct states:

| Run | Bounds | States | Shows |
|---|---|---|---|
| `control` | leases of 2 and 1 ticks, turns of 1, harness attached | 878,764 | `CaptureWithinLease`, `CaptureAuthorised`; the loop implements `CaptureAuthority` |
| `control_live` | as above, no harness, stable Wi-Fi | 174,675 | `SilenceClosesCapture`, `HeartbeatsRestoreLink` |
| `input` | two keys, G0, three tables, one token, times of two ticks | 510,507 | no stuck key, reports alternate, no dropped effect, silence while learning, one change per press, no stop by a bounce |
| `ring` | capacity 4, writes and renders of up to 2, catch-up 2, indices to 7 | 780,398 | ordered cursors, accepted samples of their place, `LossyStream`, the reader catches up |
| `config` | two chunks, queue of 2, two contents, versions to 4, two faults | 1,629,927 | announced is stored, `AuthoredRegister`, eventual sync |
| `receiver` | seven numbers, two datagrams in the air, copy lag 2, concealed gap 2, reservoir 3 | 529,724 | nothing in time lost, no holes, concealment only after the copy, bounded window, an end releases all, timers spare the next recording |
| `app` | two presses in the queue, two notifications in the air, two failures | 185,552 | nothing live survives its connection, a press follows the screen, commands are written, a stalled heartbeat ends the session |
| `session` | two sessions, a loss of Wi-Fi, a ring of one frame, bursts of five proofs, one lost per burst, three end markers | 827,109 | a ready receiver was proven, bursts suffice, no sound under another session, stopped recordings are closed, a session left alone gets its receiver |
| `update` | four versions (healthy, crashing, no keyboard, healthy), two power losses | 135,720 | the slot the bootloader takes is complete, the image to come back to is healthy and not newer, `UpdateContract`, updates end, healthy images are confirmed |
| `broker` | two users, two driver processes, two starts | 309,972 | the path leads to the broker that serves, the user at the console is answered, an app that is served is not silenced |
| `link` | any number of connections and pairings | 2,020 | authenticated means this link, the prompt is what the stack waits for, a device without a link advertises |

One run finds a violation, of what a test requires:

| Run | What the code does instead |
|---|---|
| `revoked_muted` | after a user switch the broker silences the buffer once; the revoked app still maps it, is told nothing, and its next write makes it heard again, with no client at the broker. `audio_broker_login_test.cpp:66-68` ("revoked connection must be muted") expects silence, and sets the active flag before the revocation only |

Other disagreements between the code and its comments or documents. The first six are stated by a
property of the module named; adding it to that module's configuration makes TLC print the trace.

- `MutedLeaseSurvives` (`DeviceControlHistory`, over `HSpec`): muting applies the three-second lease at once to a heartbeat
  that was due in the long cadence, and a live link is dropped (`main.cpp:1478`).
- `LossCancelsPendingLive` (same): a request for a live microphone that the BLE task stored before the control link was
  lost is applied after it (`main.cpp:1501`).
- `AmbiguousBlocksDiscarded` (`SharedAudioRing`): the comment at `AudioBridgeSharedMemory.cpp:236-237` wants an ambiguous
  block discarded; the test looks at published writes only, so a render stalled during a write that is
  stored and not published accepts overwritten slots.
- `StoppedAudioNotReplayed` (`SharedAudioRing`): against the comment at `AudioBridgeSharedMemory.cpp:163-164`, a recorder that attaches at
  the start of a session takes the end of the previous, stopped one as pre-roll.
- `StaleSessionIsRebuilt` (`AppControl`): against the comment at `BLEBridgeController.swift:422-425`, a device that resets while a
  command write is under way leaves the session ready for ever; only heartbeats have a watchdog, and none
  can start.
- `LiveRadioAwake` (`FirmwareUpdate`): `device_audio.cpp:953-954` keeps the radio awake while live; an update that was started
  while muted, and fails after the user went live, puts power save back (`firmware_update.cpp:232`).

Seen while modelling, without a property:

- The live lease is 15 s where `BLEBridgeController.swift:381-384` counts on six. G0 with an unmapped key types it after
  the authenticated edge, a learning request or an ignored bounce (against `docs/gates/FF-2.md:19`). An app
  that starts without its `config.json` can show "synced" with other mappings of the same version
  (`ShortcutConfigController.swift:40-43`). A live command the device lost is not repeated, since the heartbeat sent as
  a correction carries an intent the firmware ignores.
- While muted no frame counts as accepted, so the app rotates a good session every 15 s until the first
  recording (against `AudioSessionRecovery.swift:4-6`); an `audio_ready` the device dropped is made good by that rotation only. With Wi-Fi up for good such a device is therefore not ready for good: each new offer takes
  readiness back (`device_audio.cpp:915`), and `HandshakeCompletes` speaks of a session that is rotated no more.
- Capture preempted between taking its number and pushing the frame (`device_audio.cpp:487-508`) can have its last frame
  overtaken by the end of the recording, and it is dropped. A mark of a ready receiver that arrives after
  Wi-Fi was lost and regained counts for the new flow, which nobody validated (`device_audio.cpp:928`, against
  `docs/audio-stream-v1.md:38`); `ReadyMeansProven` therefore speaks of the session, not of the flow.
- A second start of an update while one runs publishes "failed" for the one that runs (`main.cpp:1235`), and
  the Mac reports success when the device is back, before its image is confirmed. A "failed" the Mac never hears
  leaves its controller waiting (`FirmwareUpdateController.swift:212-230`).
- The pairing screen says "ESC cancel" (`main.cpp:775-776`), and nothing calls `ble_bridge_confirm_pairing(false)`. Advertising data that
  could not be set, or an advertising start that failed, is not tried again (`CanBeFound` says so: it starts from
  data that is set).
- An app whose broker went away with `coreaudiod` writes on to a buffer nobody hears: its writes succeed, so it never
  connects again (`ConnectFails` and `Connect` are what it would do). A driver that finds the lock held has no broker and does
  not try again.

### Why the bounds are enough

`control`: the lease logic compares an age with two thresholds, so thresholds of 1 and 2 with turns of 1
separate "before", "at" and "after" for both; older ages are not told apart. `input`: two keys give a mapped
and an unmapped one and the second key of a chord; the tables cover G0 alone, G0 with a key, a
key alone, a disabled mapping and a duplicate trigger. `ring`: a capacity of 4 with writes of 2 laps the
reader in two writes, and seven indices wrap nearly twice. `config`: two chunks is the least that can be
mixed, a queue of 2 the least that drops one of three messages of a transfer, two contents the least that differ,
and four versions allow the factory's, the defaults', an edit, and the forced version after an app that
lost its file. `receiver`: a gap of one, of the concealed length and
beyond all occur within seven numbers. `app`: two failures give every failure during the recovery
from every other; two presses give a command that waits behind one under way. `session`: two
sessions give one offer in the middle of another; one lost proof of five still leaves three in a row, or
does not, with the number capture may take; a ring of one is full and empty. The second session is the one that
is rotated no more, after a first whose commands were applied, late, dropped or refused; so is the first, where the Mac
stays with it. Drops and refusals need no bound: each uses up a command. `update`: four versions give every
order of a healthy, a crashing and a silent image, and a second update after a failed one; two power losses
give one in the restart of another. `broker`: two processes overlap, two starts give a socket of an earlier one.
`link` has no bound: pairings and connections may come for ever. Every invariant and every action property of
these runs, and every refinement, is also proved for all values of the constants (section 4); what rests on the
bounds alone is liveness.

Deadlock is checked in `control`, `control_live`, `input`, `ring`, `update`, `broker` and `link`.
`config` and `receiver` stop when their bounds are used up (no version, or no number, is left) and say
`CHECK_DEADLOCK FALSE`; so do `session`, which stops with Wi-Fi lost for the last time, and `app`, where an app that
waits for a device that does not come back may wait.

### Fairness

- `DeviceControl`: the main task runs (`WF(MainTask)`), its clock advances (turns cannot all begin in the same
  tick, `SF` on a turn that takes time), and a link that is being torn down ends up down. Nothing is
  assumed of the Mac or of Wi-Fi: that heartbeats come, or stop coming, is the premise of the
  properties. `MCDeviceControlLive` keeps Wi-Fi stable, which neither property depends on.
- `SharedAudioRing`: Core Audio keeps calling the render function of a device that runs. Nothing is assumed
  of the producer.
- `ShortcutConfig`: the app's two-second timer fires, the main task polls its queue, and BLE delivers
  what it accepted. Losses and failures are bounded in number: eventual sync means that it comes once
  they stop.
- `AudioReceiver`: a drain timer fires.
- `AppControl`: the main run loop runs its timer and the callbacks that are due, and a device that is there
  takes what is written to it. Buttons, the device's own decisions, discovery and failures are not fair.
- `AudioSession`: FreeRTOS runs every task that is ready, the command queue is served and the app's polling offers.
  A socket that can be opened again and again is opened (`SF(Connect)`), and the 500 ms until the next burst pass
  (`SF`: recording may go on and off meanwhile). Nothing is assumed of rotations, Wi-Fi, drops
  and refusals: `HandshakeCompletes` has its premises in the property. Wi-Fi stays, no step changes the session any more (`<>[][FALSE]_sid`), and no command of that session was dropped or
  refused (`failed`). Without the last premise TLC finds a session that waits for its rotation.
- `FirmwareUpdate`: the update task and the main task's check run, and ten seconds pass. That a download ends is the
  15 s timeout of the HTTP client.
- `AudioBroker`: a broker's worker runs and an app takes its answers. Nothing is assumed of users, the console, crashes
  or starts.
- `BLELink`: the stack answers the two requests of the start and ends the callbacks it began, and the event loop's
  queue is served. Nothing is assumed of the main task, the Mac or the radio.

## 4. What is proved

Every invariant, action property and refinement that a passing run checks, for every value of the constants, under the
named assumptions of the modules. TLC evaluates them in the runs:

| Assumption | Says, beyond types and positive numbers |
|---|---|
| `LeaseAssumption` | the muted lease is not longer than the live one |
| `RingAssumption` | catch-up, allowed backlog and capacity are in this order; writes and renders fit the capacity |
| `ConfigAssumption` | the factory's and the app's defaults are configurations, and there are versions for both |
| `UpdateAssumption` | version 1 is healthy, and no image both is healthy and crashes |
| `BrokerAssumption` | `Nobody` is neither a user nor a broker |
| `RouterAssumption`, `LoopAssumption` | `NoKey` and `NoToken` are neither; what is offered as a table is a sequence of mappings |
| `TransportAssumption`, `BurstAssumption` | a burst has at least four proofs: three in a row, and one for the number capture takes (the code has five) |
| `JitterAssumption`, `ReceiverAssumption` | a copy comes no later than the window waits (the code has five frames for both) |
| `AppAssumption` | - |

**`DeviceControlProofs`**: types, `LinkHasLease`, `CaptureWithinLease`, `CaptureAuthorised`, and that the
loop implements `CaptureAuthority`. None is inductive: whether capture is right depends on where in
the turn the loop is. `IInv` adds what each statement leaves behind: a sampled or remembered
authentication has a lease (`SamplesHaveLease`), after the lease check a believed link has an unexpired
lease (`Checked`), and between the capture statement and the end of the turn the switch agrees with the
gate (`CaptureSet`, `CaptureFresh`). The refinement maps the five facts to the domain and the lease.
The same module has the Bluetooth link below it: `LinkInvariant` and `PromptFollowsPairing` of `BLELink`. The invariant
sorts its states by what the HID queue still holds (`PhaseOfLink`: not started, no link since the state was
cleared, a link told or not yet told, a link lost and not yet cleared). The device advertises in the
second only (`AdvertisesFree`), so the flag of an old link is cleared before there is a new one. For the prompt it is that a pairing
that fails with its link is failed after it (`PromptIsWaitedFor`). `BLELink` has no constants: TLC had covered all of
it, and what the proof adds is the reason.

**`InputLoopProofs`**: the router is `Sound` (a report that is not neutral has its key, there is neither while a shortcut
is learned, and no report while G0 is held alone), its key is down (`KeyIsDown`), and the Mac knows its report
or none (`HostIsTold`). Per operation of the router a lemma says which effects it returns, how many at most and in what
order; two of them in one dispatch are joined by what is held in between. An unspent press has changed nothing
(`UnspentPress`), and the guard is armed only when the recording is old enough (`ArmedIsOld`). It gives
`InputInvariant` (no stuck key, no effect without room), `OnePressOneChange`, `ReportsAreOrderly` and `BounceNeverStops`, for any
keys, tables and times.

**`SharedAudioRingProofs`**: `CursorInv` (the cursors, and what each process loaded earlier and still uses:
`AttachIsStale`, `RenderOwnsRead`) gives `CursorsOrdered` and the refinement of `LossyStream`. `SlotInv` adds
what the slots hold: published samples of the last lap are in their place (`PublishedKept`), so are the
stored ones (`StoredKept`), and a block copied so far holds its samples or newer ones of the write under
way (`BlockKept`); it gives `AcceptedSamplesAreOurs`. The arithmetic modulo the capacity is in lemmas.

**`ShortcutConfigProofs`**: `IInv` says that everything under way was authored (`OnlyAuthored`), that a commit in
progress is validated (`CommitIsValidated`), that the flash is never behind what is in force
(`FlashIsAhead`) and the Mac never ahead of it (`SeenIsActive`). It gives `SeenIsStored` and the refinement of
`AuthoredRegister`, for any number of chunks.

**`AppControlProofs`**: `AppInv` says, with the types, that a press awaits the device exactly when what the
app wants differs from what it last heard (`Settled`), that the window shows a live microphone only if
the device last said so (`ShownWasObserved`), and that wanting, queueing or writing "live" was granted in this
connection session (`Granted`). It gives `LiveWasGranted` and `PressFollowsScreen`, whatever fails and however
often.

**`FirmwareUpdateProofs`**: `IInv` says what otadata, the running slot and the place of the update task tell of
each other between any two restarts. Only the running image is on trial (`OnlyRunPending`), an image is new only
between the switch and the restart (`OnlyInstalledNew`), the running image is the newest usable one
(`RunIsNewest`), which is why the bootloader comes back to it, and the other slot is what a trial goes back to
(`FallbackIsGood`). An update writes only while the running image is confirmed (`WritesConfirmed`), since
esp_ota refuses to begin one on trial: that is why the slot a trial would fall back to is never the one that
is erased. It gives `BootSlotComplete`, `TrustedIsHealthy` and the refinement of `UpdateContract`, for any
set of versions and any number of power losses and crashes.

**`AudioBrokerProofs`**: a start is numbered once (`StartsAreUnique`, `StartsAreCounted`), the lock is with the one process
that runs and is not being killed (`LockIsHeld`), and that process, past `bind`, finds the path leading to itself
(`OwnersPath`), because a process being killed only cleans up (`DoomedOnlyEnd`). Who holds the buffer of a start
that listens is the client it serves (`HolderIsServed`), which it leaves only after another user was at the console
(`LeavesForCause`). It gives `BrokerInvariant` and `ServedAppIsNotSilenced`, for any users and brokers. The
queues of connections have lemmas of their own, on taking one out in the middle.

**`AudioPathProofs`**, first half, `AudioSession`: sessions are offered, applied and copied by transport in order, so each of
these numbers bounds the next. The offers in the queue are newer than the one applied, and in order, whichever were dropped or refused (`Offers`); transport's copies
are never ahead of what they copy (`Copies`); what the Mac validated was published and copied (`ProvenInv`), although
transport may open its socket between the two stores of an offer (`SocketPublished`); in a burst that nobody
disturbed, capture can take a number after the first proof only (`BurstInv`), since it has at most one in hand. It gives
`SessionInvariant` and `LiveUnderOwnSession`.

Second half, `AudioReceiver`: what a buffer has released and what its reservoir holds are one sequence, and `Pipe` says
of it that it ends one behind the window, or before a skipped gap that ends where the window begins (`Prior`), that it has
no hole (`NoHoles`), that its real frames and the waiting ones are all that was accepted, and that what is concealed
is a whole copy lag behind (`NoCopyLeft`). A push keeps it (`PushKeeps`), from what the deadline and the skipped gaps
are: nothing that arrived is in a gap, a gap is skipped as a whole, and everything that arrived before the deadline leaves
(`Gaps`, `Deadlines`, `PlayoutGrows`). `finish` releases what is left (`FinishReleases`). With the drain timers (`MicInv`: none is
current while a recording is heard) it gives `BufferInvariant`, `NoFrameInTimeIsLost`, `EndReleasesAll` and
`DrainSparesNewRecording`, for any depths and lengths, losses, duplicates and orders.

The types are part of each of these invariants. `TypeOK` of `SharedAudioRing`, `ShortcutConfig` and `AppControl` adds the
bounds of the finite instances (how long queues and indices get), which its configuration checks when it is added to
the invariants.

Only model-checked is all liveness: `SilenceClosesCapture`, `HeartbeatsRestoreLink`, `ReaderKeepsUp`, `EventuallySynced`,
`CommandsAreSent`, `StallIsRebuilt`, `MicrophoneIsReleased`, `RecordingCloses`, `HandshakeCompletes`, `UpdateEnds`, `HealthyIsConfirmed`,
`ConsoleUserIsAnswered` and `CanBeFound`. It needs fairness and ENABLED, which the prover does not handle.

`BLELink` and `AudioReceiver` name their specifications `LinkSpec` and `FlowSpec`, so that they can stand beside
`DeviceControl` and `AudioSession` in one module of proofs.

## 5. Plan

Done, by what matters most: the microphone's authorisation (`DeviceControl`), input (`InputLoop`), the ring
(`SharedAudioRing`), the configuration (`ShortcutConfig`), the receiver (`AudioReceiver`), the app's session
(`AppControl`), audio sessions (`AudioTransport`, `AudioSession`), updates (`FirmwareUpdate`), the broker (`AudioBroker`), the
Bluetooth link (`BLELink`). Next:

1. Proofs: what the abstract specifications promise their users, as theorems about them (`CaptureAuthority`, `LossyStream`,
   `AuthoredRegister`, `UpdateContract`), which the refinements carry over; the parts of the liveness arguments that are
   about single steps, such as what a fair step does whenever it is due.
2. The driver's client count and its clock anchors (`CardputerBridgeAudioDriver.cpp:707`).
3. An end-to-end composition of `AppControl` with `DeviceControl`'s interface, for convergence of the intent.

## 6. Not modelled

Screens, LED, JSON and binary parsers, codecs, resampling, the GATT and HID tables and their subscriptions, Core Audio
property tables and clock anchors, the installer beyond what it does to the broker's files, Wi-Fi scan, release
lookup, relay and USB flashing, the harness and the scripts. They are pure functions of their input, or system
calls whose effect on the modelled state is an action of the environment. `PROJECT.json`
gives the reason for each.
