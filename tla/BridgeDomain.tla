---------------------------- MODULE BridgeDomain ----------------------------
(***************************************************************************)
(* The microphone authorisation state of the Cardputer and the eight       *)
(* actions BridgeDomain::dispatch accepts.  Every dispatch ends with       *)
(* update_capture_gate, so every operator below ends with UpdateGate.      *)
(*                                                                         *)
(* The operators are pure: they map a domain record to the next one, and   *)
(* the modules of the firmware's main task apply them.                     *)
(***************************************************************************)

Domain == [intent : {"muted", "live"}, gate : {"closed", "open"},
           ble : BOOLEAN, wifi : BOOLEAN, sink : BOOLEAN]

\* reset(kBootUnpaired), the only profile app_main uses.
BootUnpaired == [intent |-> "muted", gate |-> "closed",
                 ble |-> FALSE, wifi |-> FALSE, sink |-> FALSE]

Authorized(d) == d.intent = "live" /\ d.ble /\ d.wifi /\ d.sink

\* A mutation: the gate forgets the control link.
UpdateGateIgnoringLink(d) ==
    [d EXCEPT !.gate = IF d.intent = "live" /\ d.wifi /\ d.sink
                       THEN "open" ELSE "closed"]

UpdateGate(d) ==
    [d EXCEPT !.gate = IF Authorized(d) THEN "open" ELSE "closed"]

ToggleMicIntent(d) ==
    UpdateGate([d EXCEPT !.intent = IF @ = "muted" THEN "live" ELSE "muted"])

MuteMicIntent(d) == UpdateGate([d EXCEPT !.intent = "muted"])

ControlLinkAuthenticated(d) == UpdateGate([d EXCEPT !.ble = TRUE])

\* Losing the control link also clears the user's live intent.
ControlLinkLost(d) ==
    UpdateGate([d EXCEPT !.ble = FALSE, !.intent = "muted"])

\* kWifiAudioAuthenticated and kWifiAudioLost.
WifiAudio(d, connected) == UpdateGate([d EXCEPT !.wifi = connected])

\* kAudioSinkReady and kAudioSinkLost.
AudioSink(d, isReady) == UpdateGate([d EXCEPT !.sink = isReady])
=============================================================================
