---------------------------- MODULE DeviceControl ----------------------------
(***************************************************************************)
(* The control plane of the Cardputer firmware: the turn of app_main's     *)
(* loop, and the tasks it shares flags with (the BLE host and the HID      *)
(* event loop, the Wi-Fi event task, the audio transport task).            *)
(*                                                                         *)
(* The main task takes one step per access to shared state, in the order   *)
(* of the code; pc names the next one.  Code between two accesses only     *)
(* touches locals and belongs to the step it follows.  Time is counted in  *)
(* ticks: `now` is read once, at the top of a turn, so a turn absorbs the  *)
(* time that passed since the last one in its first step.                  *)
(***************************************************************************)
EXTENDS BridgeDomain, Naturals

CONSTANTS
    LiveLease,      \* kLiveLeaseMilliseconds, in ticks
    MutedLease,     \* kMutedLeaseMilliseconds, in ticks
    Turn,           \* the longest turn of the loop, in ticks
    HarnessAttached \* may a serial command be read?

ASSUME LeaseAssumption ==
    /\ LiveLease \in Nat /\ MutedLease \in Nat /\ Turn \in Nat
    /\ 1 <= MutedLease /\ MutedLease <= LiveLease /\ 1 <= Turn
    /\ HarnessAttached \in BOOLEAN

VARIABLES
    \* shared flags, written by the BLE tasks
    link,           \* the HID connection: s_hid_connected, and its teardown
    ctlAuth,        \* s_control_authenticated
    discEvent,      \* s_disconnect_event
    beat,           \* g_ble_heartbeats_pending > 0
    remote,         \* g_remote_mic_intent_requested
    ota,            \* an ota_start command is queued
    \* shared flags, written by the Wi-Fi and audio tasks
    wifiUp,         \* s_wifi_connected
    ready,          \* s_receiver_ready
    \* the main task
    pc,             \* the next access to shared state
    domain,         \* BridgeDomain::state_
    lease,          \* ControlLease: authenticated_, now - last_heartbeat_ms_
    lastAuth,       \* last_authenticated
    seenAuth,       \* this turn's sample of s_control_authenticated
    tookEvent,      \* the value ble_bridge_take_disconnect_event read
    capture         \* s_capture_enabled, written by the main task only

bleVars   == <<link, ctlAuth, discEvent, beat, remote, ota>>
audioVars == <<wifiUp, ready>>
mainVars  == <<pc, domain, lease, lastAuth, seenAuth, tookEvent, capture>>
vars      == <<link, ctlAuth, discEvent, beat, remote, ota, wifiUp, ready,
               pc, domain, lease, lastAuth, seenAuth, tookEvent, capture>>

Phase == {"turn", "commands", "status", "g0", "keys", "take", "clear",
          "auth", "beat", "intent", "capture", "serial"}

AgeCap == LiveLease + Turn      \* ages beyond this are not told apart

Lease == [auth : BOOLEAN, age : 0..AgeCap]

BleTypes ==
    /\ link \in {"down", "up", "dropping"}
    /\ ctlAuth \in BOOLEAN /\ discEvent \in BOOLEAN /\ beat \in BOOLEAN
    /\ remote \in {"none", "live", "muted"} /\ ota \in BOOLEAN

AudioTypes == wifiUp \in BOOLEAN /\ ready \in BOOLEAN

MainTypes ==
    /\ pc \in Phase /\ domain \in Domain /\ lease \in Lease
    /\ lastAuth \in BOOLEAN /\ seenAuth \in BOOLEAN /\ tookEvent \in BOOLEAN
    /\ capture \in BOOLEAN

TypeOK == BleTypes /\ AudioTypes /\ MainTypes

Init ==
    /\ link = "down" /\ ctlAuth = FALSE /\ discEvent = FALSE
    /\ beat = FALSE /\ remote = "none" /\ ota = FALSE
    /\ wifiUp = FALSE /\ ready = FALSE
    /\ pc = "turn" /\ domain = BootUnpaired
    /\ lease = [auth |-> FALSE, age |-> 0]
    /\ lastAuth = FALSE /\ seenAuth = FALSE /\ tookEvent = FALSE
    /\ capture = FALSE

(***************************************************************************)
(* ControlLease.  `now` never runs backwards inside the main task, so the  *)
(* unsigned difference is the age.                                         *)
(***************************************************************************)
Authenticate == [auth |-> TRUE, age |-> 0]

\* A heartbeat renews only a lease that was authenticated once.
Heartbeat(l) == IF l.auth THEN [l EXCEPT !.age = 0] ELSE l

\* A mutation: the live lease never runs out.
ExpiredWhenMuted(l, intent) == l.auth /\ intent = "muted" /\ l.age >= MutedLease

Expired(l, intent) ==
    l.auth /\ l.age >= (IF intent = "live" THEN LiveLease ELSE MutedLease)

-----------------------------------------------------------------------------
(***************************************************************************)
(* The BLE tasks.  The HID disconnect handler clears the authentication    *)
(* flag and then raises the disconnect event: two stores, two steps.       *)
(***************************************************************************)
HidConnect ==
    /\ link = "down"
    /\ link' = "up"
    /\ UNCHANGED <<ctlAuth, discEvent, beat, remote, ota>>

AuthComplete ==
    /\ link = "up"
    /\ ctlAuth' \in BOOLEAN
    /\ UNCHANGED <<link, discEvent, beat, remote, ota>>

HidDisconnect ==
    /\ link = "up"
    /\ link' = "dropping" /\ ctlAuth' = FALSE
    /\ UNCHANGED <<discEvent, beat, remote, ota>>

HidDisconnectEvent ==
    /\ link = "dropping"
    /\ link' = "down" /\ discEvent' = TRUE
    /\ UNCHANGED <<ctlAuth, beat, remote, ota>>

\* The vendor characteristics need an encrypted, authenticated link.
VendorHeartbeat ==
    /\ link = "up" /\ ctlAuth
    /\ beat' = TRUE
    /\ UNCHANGED <<link, ctlAuth, discEvent, remote, ota>>

\* set_mic_intent: one cell, the latest request wins.
VendorMicIntent ==
    /\ link = "up" /\ ctlAuth
    /\ remote' \in {"live", "muted"}
    /\ UNCHANGED <<link, ctlAuth, discEvent, beat, ota>>

VendorOtaStart ==
    /\ link = "up" /\ ctlAuth
    /\ ota' = TRUE
    /\ UNCHANGED <<link, ctlAuth, discEvent, beat, remote>>

BleTask ==
    /\ \/ HidConnect \/ AuthComplete \/ HidDisconnect \/ HidDisconnectEvent
       \/ VendorHeartbeat \/ VendorMicIntent \/ VendorOtaStart
    /\ UNCHANGED <<audioVars, mainVars>>

(***************************************************************************)
(* The Wi-Fi events and the audio tasks raise and clear the two flags the  *)
(* main task samples; a receiver is ready only while Wi-Fi is connected or *)
(* until the disconnect handler has cleared it.                            *)
(***************************************************************************)
AudioTask ==
    /\ \/ wifiUp' = TRUE /\ ready' = ready
       \/ wifiUp' = FALSE /\ ready' = FALSE
       \/ wifiUp' = wifiUp /\ ready' \in BOOLEAN
    /\ UNCHANGED <<bleVars, mainVars>>

-----------------------------------------------------------------------------
(***************************************************************************)
(* The main task.                                                          *)
(***************************************************************************)
Goto(from, to) == pc = from /\ pc' = to

Capped(n) == IF n > AgeCap THEN AgeCap ELSE n

TurnStart(d) ==
    /\ Goto("turn", "commands")
    /\ lease' = [lease EXCEPT !.age = Capped(@ + d)]
    /\ UNCHANGED <<bleVars, audioVars, domain, lastAuth, seenAuth, tookEvent,
                   capture>>

\* The command queue: an update mutes the microphone before it starts.
OtaStart ==
    /\ ota /\ ota' = FALSE
    /\ domain' = IF domain.intent = "live" THEN ToggleMicIntent(domain)
                                           ELSE domain
    /\ capture' = FALSE

Commands ==
    /\ Goto("commands", "status")
    /\ \/ OtaStart
       \/ ~ota /\ UNCHANGED <<ota, domain, capture>>
    /\ UNCHANGED <<link, ctlAuth, discEvent, beat, remote, audioVars, lease,
                   lastAuth, seenAuth, tookEvent>>

\* device_audio_status: last_wifi_connected and last_audio_receiver_ready
\* always equal the domain's own fields, so an edge is a difference to them.
Status ==
    /\ Goto("status", "g0")
    /\ LET d == IF wifiUp = domain.wifi THEN domain
                                        ELSE WifiAudio(domain, wifiUp)
       IN  domain' = IF ready = d.sink THEN d ELSE AudioSink(d, ready)
    /\ UNCHANGED <<bleVars, audioVars, lease, lastAuth, seenAuth, tookEvent,
                   capture>>

\* stop_microphone_for_physical_press.
PhysicalStop ==
    /\ domain.intent = "live"
    /\ domain' = MuteMicIntent(domain) /\ capture' = FALSE

\* The G0 button: nothing, a press that stops the microphone, or a release
\* that toggles the intent.  Which press does what is module InputLoop.
G0 ==
    /\ Goto("g0", "keys")
    /\ \/ UNCHANGED <<domain, capture>>
       \/ PhysicalStop
       \/ domain' = ToggleMicIntent(domain) /\ UNCHANGED capture
    /\ UNCHANGED <<bleVars, audioVars, lease, lastAuth, seenAuth, tookEvent>>

\* The keyboard: any physical press stops a live microphone.
Keys ==
    /\ Goto("keys", "take")
    /\ \/ UNCHANGED <<domain, capture>>
       \/ PhysicalStop
    /\ UNCHANGED <<bleVars, audioVars, lease, lastAuth, seenAuth, tookEvent>>

\* ble_bridge_take_disconnect_event reads the event ...
TakeDisconnectEvent ==
    /\ Goto("take", "clear")
    /\ tookEvent' = discEvent
    /\ UNCHANGED <<bleVars, audioVars, domain, lease, lastAuth, seenAuth,
                   capture>>

\* ... and clears it; an event raised in between is lost.
ClearDisconnectEvent ==
    /\ Goto("clear", "auth")
    /\ discEvent' = FALSE /\ tookEvent' = FALSE
    /\ domain' = IF tookEvent THEN ControlLinkLost(domain) ELSE domain
    /\ UNCHANGED <<link, ctlAuth, beat, remote, ota, audioVars, lease,
                   lastAuth, seenAuth, capture>>

\* Only the rising edge of the sampled level authenticates the domain.
SampleAuth ==
    /\ Goto("auth", "beat")
    /\ seenAuth' = ctlAuth /\ lastAuth' = ctlAuth
    /\ IF ctlAuth /\ ~lastAuth
       THEN /\ lease' = Authenticate
            /\ domain' = ControlLinkAuthenticated(domain)
       ELSE UNCHANGED <<lease, domain>>
    /\ UNCHANGED <<bleVars, audioVars, tookEvent, capture>>

\* A heartbeat counts only if this turn's sample was authenticated ...
Renewed == IF beat /\ seenAuth THEN Heartbeat(lease) ELSE lease

Reconnected ==
    IF beat /\ seenAuth /\ ~domain.ble THEN ControlLinkAuthenticated(domain)
                                       ELSE domain

\* A mutation: a heartbeat renews the lease but never restores the link.
HeartbeatsOnlyRenew ==
    /\ Goto("beat", "intent")
    /\ beat' = FALSE
    /\ lease' = Renewed
    /\ domain' = IF domain.ble /\ Expired(Renewed, domain.intent)
                 THEN ControlLinkLost(domain) ELSE domain
    /\ UNCHANGED <<link, ctlAuth, discEvent, remote, ota, audioVars, lastAuth,
                   seenAuth, tookEvent, capture>>

\* ... and the lease is checked after it, against the current intent.
HeartbeatsAndLease ==
    /\ Goto("beat", "intent")
    /\ beat' = FALSE
    /\ lease' = Renewed
    /\ domain' = IF Reconnected.ble /\ Expired(Renewed, domain.intent)
                 THEN ControlLinkLost(Reconnected) ELSE Reconnected
    /\ UNCHANGED <<link, ctlAuth, discEvent, remote, ota, audioVars, lastAuth,
                   seenAuth, tookEvent, capture>>

\* The remote request is applied whether or not the link is authenticated.
RemoteIntent ==
    /\ Goto("intent", "capture")
    /\ remote' = "none"
    /\ IF remote \in {"live", "muted"} /\ remote # domain.intent
       THEN /\ domain' = ToggleMicIntent(domain)
            /\ capture' = (capture /\ remote = "live")
       ELSE UNCHANGED <<domain, capture>>
    /\ UNCHANGED <<link, ctlAuth, discEvent, beat, ota, audioVars, lease,
                   lastAuth, seenAuth, tookEvent>>

\* A mutation: capture follows the intent and not the gate.
SetCaptureByIntent ==
    /\ Goto("capture", "serial")
    /\ capture' = (domain.intent = "live")
    /\ UNCHANGED <<bleVars, audioVars, domain, lease, lastAuth, seenAuth,
                   tookEvent>>

SetCapture ==
    /\ Goto("capture", "serial")
    /\ capture' = (domain.gate = "open")
    /\ UNCHANGED <<bleVars, audioVars, domain, lease, lastAuth, seenAuth,
                   tookEvent>>

\* The serial harness acts after capture was set: its effect on capture
\* waits for the next turn.
HarnessControl ==
    \/ lease' = Authenticate /\ domain' = ControlLinkAuthenticated(domain)
    \/ lease' = lease /\ domain' = ControlLinkLost(domain)
    \/ /\ ~domain.ble
       /\ lease' = Authenticate /\ domain' = ControlLinkAuthenticated(domain)
    \/ /\ domain.ble
       /\ lease' = Heartbeat(lease) /\ domain' = domain
    \/ lease' = lease /\ domain' = ToggleMicIntent(domain)

SerialHarness ==
    /\ Goto("serial", "turn")
    /\ \/ UNCHANGED <<lease, domain>>
       \/ HarnessAttached /\ HarnessControl
    /\ UNCHANGED <<bleVars, audioVars, lastAuth, seenAuth, tookEvent, capture>>

MainTask ==
    \/ \E d \in 0..Turn : TurnStart(d)
    \/ Commands \/ Status \/ G0 \/ Keys
    \/ TakeDisconnectEvent \/ ClearDisconnectEvent
    \/ SampleAuth \/ HeartbeatsAndLease \/ RemoteIntent
    \/ SetCapture \/ SerialHarness

Next == BleTask \/ AudioTask \/ MainTask

Spec == Init /\ [][Next]_vars

\* The main task is never blocked for good, and the hardware clock advances:
\* infinitely many turns cannot all begin in the same tick.
Fairness ==
    /\ WF_vars(MainTask)
    /\ SF_vars(\E d \in 1..Turn : TurnStart(d))
    /\ WF_vars(BleTask /\ link = "dropping" /\ link' = "down")

FairSpec == Spec /\ Fairness

-----------------------------------------------------------------------------
(***************************************************************************)
(* Safety.                                                                 *)
(***************************************************************************)

\* A control link the domain believes in always has a lease running against
\* it: without one, no silence of the Mac would ever close the microphone.
\* The edge that sets the one and the edge that starts the other are
\* sampled by different statements of the loop.
LinkHasLease == domain.ble => lease.auth

\* Capture never outlives the lease by more than one turn, whatever was
\* pressed, queued, dropped or reconnected in between.
CaptureWithinLease == capture => lease.auth /\ lease.age < LiveLease + Turn

\* When the loop has set capture, it runs exactly if all four authorisations
\* hold and the lease has not run out.
CaptureAuthorised ==
    pc = "serial" =>
        (capture <=> Authorized(domain) /\ lease.auth /\ lease.age < LiveLease)

Facts == {"live", "link", "wifi", "sink", "lease"}

HoldingFacts ==
    {f \in Facts :
        \/ f = "live" /\ domain.intent = "live"
        \/ f = "link" /\ domain.ble
        \/ f = "wifi" /\ domain.wifi
        \/ f = "sink" /\ domain.sink
        \/ f = "lease" /\ lease.auth /\ lease.age < LiveLease}

Authority == INSTANCE CaptureAuthority
                 WITH Fact <- Facts, holds <- HoldingFacts, on <- capture

\* The loop implements the abstract promise: capture is switched on only by
\* a decision that sees all five facts.
ImplementsAuthority == Authority!Spec

(***************************************************************************)
(* Liveness.                                                               *)
(***************************************************************************)

\* A Mac that falls silent loses the microphone: either the disconnect event
\* or, when that event is lost between its read and its clear, the lease.
SilenceClosesCapture ==
    <>[](~beat /\ ~ctlAuth) => <>[](~capture /\ ~domain.ble)

\* A link that stays authenticated and keeps sending heartbeats is believed
\* again and again, also after a reconnect so quick that the loop never
\* sampled the level low and missed the rising edge.
HeartbeatsRestoreLink == [](<>[]ctlAuth /\ []<>beat => []<>domain.ble)
=============================================================================
