--------------------------- MODULE FirmwareUpdate ---------------------------
(***************************************************************************)
(* An update over the air: the main task that starts it and confirms the   *)
(* image it runs, update_task that downloads into the slot that is not      *)
(* running and switches to it, the flash and the bootloader, and the power  *)
(* that may go at any moment.                                              *)
(*                                                                         *)
(* Flash survives a restart, the rest does not.  esp_https_ota, esp_ota and *)
(* the bootloader with CONFIG_BOOTLOADER_APP_ROLLBACK_ENABLE are external.  *)
(* The Wi-Fi power save mode is part of the model because both tasks and    *)
(* the capture switch set it.                                              *)
(***************************************************************************)
EXTENDS Integers

CONSTANTS
    Versions,       \* the newest version there is; 1 is flashed over USB
    Good,           \* versions that come up and stay up
    Crashing,       \* versions that crash before they are 10 s old
    PowerLosses     \* how often power is lost

Version == 1..Versions

\* The rest run, but without a keyboard.
ASSUME UpdateAssumption ==
    /\ Versions \in Nat /\ PowerLosses \in Nat
    /\ Good \subseteq Version /\ Crashing \subseteq Version
    /\ Good \cap Crashing = {} /\ 1 \in Good

OtaSlot == {"ota_0", "ota_1"}
Slot    == {"factory"} \cup OtaSlot

VARIABLES
    image,          \* flash: the version in each slot, 0 while it is incomplete
    entry,          \* flash: the state of each OTA slot in otadata
    newest,         \* flash: the OTA slot with the higher sequence number
    run,            \* esp_ota_get_running_partition
    old,            \* has it been running for 10 s?
    updating,       \* g_running
    pc,             \* update_task
    attempt,        \* its attempt to connect
    request,        \* context->request.version
    candidate,      \* the version in the image's description, 0 for another project
    ps,             \* the Wi-Fi power save mode
    previous,       \* previous_wifi_ps
    capture,        \* s_capture_enabled
    losses          \* power losses so far

flash == <<image, entry, newest>>
task  == <<updating, pc, attempt, request, candidate, previous>>
vars  == <<flash, run, old, task, ps, capture, losses>>

States == {"empty", "new", "pending", "valid", "aborted"}

TypeOK ==
    /\ image \in [Slot -> 0..Versions] /\ entry \in [OtaSlot -> States]
    /\ newest \in OtaSlot /\ run \in Slot /\ old \in BOOLEAN
    /\ updating \in BOOLEAN
    /\ pc \in {"none", "save", "awake", "connect", "retry", "describe", "begin",
               "write", "finish", "restart", "restore", "release"}
    /\ attempt \in 1..3 /\ request \in Version /\ candidate \in 0..Versions
    /\ ps \in {"none", "min_modem"} /\ previous \in {"none", "min_modem"}
    /\ capture \in BOOLEAN /\ losses \in 0..PowerLosses

-----------------------------------------------------------------------------
(***************************************************************************)
(* The bootloader.  An image on trial that was not confirmed is aborted;   *)
(* then the newest usable slot is taken, and put on trial if it is new.     *)
(***************************************************************************)
Other(s) == IF s = "ota_0" THEN "ota_1" ELSE "ota_0"

Aborted == [s \in OtaSlot |-> IF entry[s] = "pending" THEN "aborted" ELSE entry[s]]

Usable(states, s) == states[s] \in {"new", "pending", "valid"}

Selected(states) ==
    IF Usable(states, newest) THEN newest
    ELSE IF Usable(states, Other(newest)) THEN Other(newest)
    ELSE "factory"

\* The slot of the image the device comes back to.
Trusted ==
    IF run = "factory" THEN run
    ELSE IF entry[run] = "valid" THEN run ELSE Selected(Aborted)

Boot ==
    /\ run' = Selected(Aborted)
    /\ entry' = [s \in OtaSlot |-> IF s = run' /\ Aborted[s] = "new"
                                   THEN "pending" ELSE Aborted[s]]
    /\ old' = FALSE /\ updating' = FALSE /\ pc' = "none" /\ attempt' = 1
    /\ request' = 1 /\ candidate' = 0 /\ previous' = "min_modem"
    /\ ps' = "min_modem" /\ capture' = FALSE
    /\ UNCHANGED <<image, newest>>

Init ==
    /\ image = [s \in Slot |-> IF s = "factory" THEN 1 ELSE 0]
    /\ entry = [s \in OtaSlot |-> "empty"] /\ newest = "ota_0"
    /\ run = "factory" /\ old = FALSE
    /\ updating = FALSE /\ pc = "none" /\ attempt = 1 /\ request = 1
    /\ candidate = 0 /\ previous = "min_modem" /\ ps = "min_modem"
    /\ capture = FALSE /\ losses = 0

PowerLoss == losses < PowerLosses /\ losses' = losses + 1 /\ Boot

Crash == image[run] \in Crashing /\ ~old /\ Boot /\ UNCHANGED losses

-----------------------------------------------------------------------------
(***************************************************************************)
(* The main task.                                                          *)
(***************************************************************************)
PsFor(live) == IF live THEN "none" ELSE "min_modem"

\* device_audio_set_capture_enabled: the mode is set when the switch turns.
SetCaptureEnabled(enabled) ==
    /\ capture' = enabled
    /\ ps' = IF enabled = capture THEN ps ELSE PsFor(enabled)

\* device_audio_mark_receiver_ready and device_audio_apply_offer.
MarkReceiverReady == ps' = PsFor(capture) /\ UNCHANGED capture
ApplyOffer        == ps' = "none" /\ UNCHANGED capture

Audio ==
    /\ (\E enabled \in BOOLEAN : SetCaptureEnabled(enabled)) \/ MarkReceiverReady \/ ApplyOffer
    /\ UNCHANGED <<flash, run, old, task, losses>>

\* firmware_update_readiness, in percent and dBm.
Ready(battery, external, rssi) == rssi # 0 /\ (external \/ battery >= 30) /\ rssi >= -80

\* firmware_update_start: one update at a time; a task that cannot be created
\* leaves none.
FirmwareUpdateStart(version) ==
    /\ ~updating /\ updating' = TRUE /\ pc' = "save"
    /\ request' = version /\ UNCHANGED <<attempt, candidate, previous>>

\* The command kOTAStart mutes first, whatever comes of the update.
OTAStart(version, ready) ==
    /\ SetCaptureEnabled(FALSE)
    /\ \/ ready /\ FirmwareUpdateStart(version)
       \/ UNCHANGED task
    /\ UNCHANGED <<flash, run, old, losses>>

TenSeconds ==
    /\ ~old /\ image[run] \notin Crashing
    /\ old' = TRUE
    /\ UNCHANGED <<flash, run, task, ps, capture, losses>>

\* A mutation: an image is confirmed at once.
ConfirmAtOnce ==
    /\ image[run] \in Good \cup Crashing
    /\ run # "factory" /\ entry[run] = "pending"
    /\ entry' = [entry EXCEPT ![run] = "valid"]
    /\ UNCHANGED <<image, newest, run, old, task, ps, capture, losses>>

\* A mutation: the health check waits for a recording.
ConfirmWhileLive ==
    /\ old /\ capture /\ image[run] \in Good
    /\ run # "factory" /\ entry[run] = "pending"
    /\ entry' = [entry EXCEPT ![run] = "valid"]
    /\ UNCHANGED <<image, newest, run, old, task, ps, capture, losses>>

\* firmware_update_confirm_running_image, once the keyboard is ready and the
\* image is 10 s old.
Confirm ==
    /\ old /\ image[run] \in Good
    /\ run # "factory" /\ entry[run] = "pending"
    /\ entry' = [entry EXCEPT ![run] = "valid"]
    /\ UNCHANGED <<image, newest, run, old, task, ps, capture, losses>>

-----------------------------------------------------------------------------
(***************************************************************************)
(* update_task.                                                            *)
(***************************************************************************)
At(label)   == pc = label
Goto(label) == pc' = label

Save ==
    /\ At("save") /\ Goto("awake") /\ previous' = ps
    /\ UNCHANGED <<flash, run, old, updating, attempt, request, candidate, ps, capture, losses>>

KeepAwake ==
    /\ At("awake") /\ Goto("connect") /\ ps' = "none" /\ attempt' = 1
    /\ UNCHANGED <<flash, run, old, updating, request, candidate, previous, capture, losses>>

\* The steps that touch nothing but the task.
quiet == <<flash, run, old, updating, request, previous, ps, capture, losses>>

Connect(version) ==
    /\ At("connect") /\ Goto("describe") /\ candidate' = version
    /\ UNCHANGED <<quiet, attempt>>

\* A mutation: the attempts are not counted.
ConnectFailsForever(transport) ==
    /\ At("connect")
    /\ IF transport THEN Goto("retry") ELSE Goto("restore")
    /\ UNCHANGED <<quiet, attempt, candidate>>

\* firmware_connect_retry_delay_ms: only a failed transport is tried again.
ConnectFails(transport) ==
    /\ At("connect")
    /\ IF transport /\ attempt < 3
       THEN Goto("retry") /\ attempt' = attempt + 1
       ELSE Goto("restore") /\ UNCHANGED attempt
    /\ UNCHANGED <<quiet, candidate>>

RetryDelayOver == At("retry") /\ Goto("connect") /\ UNCHANGED <<quiet, attempt, candidate>>

\* A mutation: any version may be installed.
AcceptsAny == candidate = request

\* The image is of this project, is what was asked for and is_strictly_newer.
Accepts == candidate = request /\ candidate > image[run]

Describe ==
    /\ At("describe") /\ Goto(IF Accepts THEN "begin" ELSE "restore")
    /\ UNCHANGED <<quiet, attempt, candidate>>

Target == IF run = "ota_0" THEN "ota_1" ELSE "ota_0"

\* The first esp_https_ota_perform erases the slot, unless the running image
\* is still on trial.
BeginWrite ==
    /\ At("begin")
    /\ IF run # "factory" /\ entry[run] = "pending"
       THEN Goto("restore") /\ UNCHANGED image
       ELSE Goto("write") /\ image' = [image EXCEPT ![Target] = 0]
    /\ UNCHANGED <<entry, newest, run, old, updating, attempt, request, candidate,
                   previous, ps, capture, losses>>

\* The other calls, until the data is complete.
Write ==
    /\ At("write") /\ (Goto("finish") \/ Goto("restore"))
    /\ UNCHANGED <<quiet, attempt, candidate>>

\* A mutation: another update may be started before the restart.
FinishReleases ==
    /\ At("finish")
    /\ \/ /\ Goto("none") /\ updating' = FALSE
          /\ image' = [image EXCEPT ![Target] = candidate]
          /\ entry' = [entry EXCEPT ![Target] = "new"] /\ newest' = Target
       \/ Goto("restore") /\ UNCHANGED <<flash, updating>>
    /\ UNCHANGED <<run, old, attempt, request, candidate, previous, ps,
                   capture, losses>>

\* esp_https_ota_finish verifies the image and switches otadata.
Finish ==
    /\ At("finish")
    /\ \/ /\ Goto("restart")
          /\ image' = [image EXCEPT ![Target] = candidate]
          /\ entry' = [entry EXCEPT ![Target] = "new"] /\ newest' = Target
       \/ Goto("restore") /\ UNCHANGED flash
    /\ UNCHANGED <<run, old, updating, attempt, request, candidate, previous, ps,
                   capture, losses>>

Restart == At("restart") /\ Boot /\ UNCHANGED losses

\* An update that failed puts the radio back and lets another one start.
Restore ==
    /\ At("restore") /\ Goto("release") /\ ps' = previous
    /\ UNCHANGED <<flash, run, old, updating, attempt, request, candidate, previous,
                   capture, losses>>

Release ==
    /\ At("release") /\ Goto("none") /\ updating' = FALSE
    /\ UNCHANGED <<flash, run, old, attempt, request, candidate, previous, ps,
                   capture, losses>>

UpdateTask ==
    \/ Save \/ KeepAwake
    \/ \E version \in 0..Versions : Connect(version)
    \/ \E transport \in BOOLEAN : ConnectFails(transport)
    \/ RetryDelayOver \/ Describe \/ BeginWrite \/ Write \/ Finish
    \/ Restart \/ Restore \/ Release

\* Charges and signals on both sides of every threshold.
Readiness == {Ready(battery, external, rssi) :
                battery \in {-1, 29, 30}, external \in BOOLEAN, rssi \in {-81, -80, 0}}

Command == \E version \in Version, ready \in Readiness : OTAStart(version, ready)

Next ==
    \/ PowerLoss \/ Crash
    \/ Audio \/ Command \/ TenSeconds \/ Confirm
    \/ UpdateTask

Spec == Init /\ [][Next]_vars

\* The tasks are scheduled and time passes.
FairSpec == Spec /\ WF_vars(UpdateTask) /\ WF_vars(TenSeconds) /\ WF_vars(Confirm)

-----------------------------------------------------------------------------
\* The slot the bootloader will take holds a complete image: it is never the
\* one being written.
BootSlotComplete == image[Selected(Aborted)] # 0

\* As long as the running image is on trial, the image to come back to is
\* complete, healthy and not newer.
TrustedIsHealthy == image[Trusted] \in Good /\ image[Trusted] <= image[run]

Contract == INSTANCE UpdateContract WITH
    Factory <- 1, Healthy <- Good, running <- image[run], trusted <- image[Trusted]

\* The device implements the contract of an update.
ImplementsContract == Contract!Spec

\* Every update ends: in a restart, or in a failure that allows the next one.
UpdateEnds == updating ~> ~updating

\* A healthy image is confirmed if the power lasts.
HealthyIsConfirmed == [](image[run] \in Good => <>(Trusted = run))

\* "Disabling Wi-Fi power save while live keeps UDP datagrams timely"
LiveRadioAwake == capture => ps = "none"
=============================================================================
