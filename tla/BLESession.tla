----------------------------- MODULE BLESession -----------------------------
(***************************************************************************)
(* BLESessionReducer: the phases of the app's session with the device, as  *)
(* a record of the radio, the phase, and whether a device is selected.     *)
(* Each operator is what one event does to it; the effect that goes with   *)
(* an event is the caller's.  There is one device.  The identity is known  *)
(* exactly in the phase "ready", the only one in which it is used.         *)
(***************************************************************************)
Radio == {"unknown", "off", "on"}

Phase == {"waitingForBluetooth", "scanning", "deviceFound", "connecting",
          "discoveringServices", "authenticating", "ready", "blocked", "failed"}

Session == [radio : Radio, phase : Phase, device : BOOLEAN]

NewSession == [radio |-> "unknown", phase |-> "waitingForBluetooth", device |-> FALSE]

CanSendCommand(s) == s.phase = "ready"

\* Stands for every radio state that is not "powered on".
RadioChanged(s, radio) ==
    CASE radio = "on"      -> [s EXCEPT !.radio = radio, !.phase = "scanning"]
      [] radio = "off"     -> [radio |-> radio, phase |-> "blocked", device |-> FALSE]
      [] radio = "unknown" -> [radio |-> radio, phase |-> "waitingForBluetooth",
                               device |-> FALSE]

\* An event that has no effect outside the phase it belongs to.
InPhase(s, phase, next) == IF s.phase = phase THEN next ELSE s

DeviceDiscovered(s) ==
    InPhase(s, "scanning", [s EXCEPT !.phase = "deviceFound", !.device = TRUE])

KnownDeviceRediscovered(s) ==
    InPhase(s, "scanning", [s EXCEPT !.phase = "connecting", !.device = TRUE])

ConnectRequested(s) ==
    IF s.device THEN InPhase(s, "deviceFound", [s EXCEPT !.phase = "connecting"]) ELSE s

Connected(s) ==
    InPhase(s, "connecting", [s EXCEPT !.phase = "discoveringServices"])

VendorCharacteristicsReady(s) ==
    InPhase(s, "discoveringServices", [s EXCEPT !.phase = "authenticating"])

IdentityRead(s) == InPhase(s, "authenticating", [s EXCEPT !.phase = "ready"])

ServicesInvalidated(s) ==
    IF s.device /\ s.radio = "on" THEN [s EXCEPT !.phase = "discoveringServices"] ELSE s

Disconnected(s) ==
    [s EXCEPT !.device = FALSE,
              !.phase = IF s.radio = "on" THEN "scanning" ELSE "waitingForBluetooth"]

Failed(s) == [s EXCEPT !.phase = "failed"]

RetryRequested(s) ==
    IF s.radio = "on" THEN InPhase(s, "failed", [s EXCEPT !.phase = "scanning", !.device = FALSE])
    ELSE s
=============================================================================
