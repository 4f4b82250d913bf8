----------------------------- MODULE AppControl -----------------------------
(***************************************************************************)
(* BLEBridgeController: the app's session with the device over             *)
(* CoreBluetooth, its two kinds of acknowledged writes (commands from a    *)
(* queue, and heartbeats with a watchdog), the intent authority, and a     *)
(* device that can disconnect, fail, reset without a word or change the    *)
(* intent itself.  There is one device.  Of the commands only the          *)
(* microphone intent is told apart: the others take the same queue.        *)
(***************************************************************************)
EXTENDS BLESession, IntentAuthority, Naturals, Sequences

CONSTANTS
    MaxQueue,   \* bounds the presses in commandWriteQueue
    MaxNotices, \* notifications under way; more are lost
    MaxFaults   \* bounds the failures

ASSUME AppAssumption == MaxQueue \in Nat \ {0} /\ MaxNotices \in Nat /\ MaxFaults \in Nat

VARIABLES
    \* the controller
    central,    \* whether there is a CBCentralManager
    session,    \* reducer.state
    remembered, \* rememberedDeviceID is set
    reconnect,  \* reconnectDeviceID is set
    handles,    \* what clearConnectionHandles clears
    auth,       \* microphoneIntentAuthority
    shown,      \* micIntent, which the window shows
    \* CoreBluetooth and the air
    power,      \* central.state
    news,       \* that state is new: the callback that makes it visible is due
    link,       \* "none", "up", "closing" (cancelled), or "stale": the device was reset
    asked,      \* requests that will be called back
    wire,       \* the writes that were not called back
    notices,    \* state notifications under way
    \* the device
    intent,     \* its mic_intent
    faults,     \* how many failures have happened
    \* history
    granted     \* in this connection session the user or the device said "live"

appVars   == <<central, session, remembered, reconnect, handles, auth, shown>>
btVars    == <<power, news, link, asked, wire, notices>>
vars == <<appVars, btVars, intent, faults, granted>>

NoHandles ==
    [selected |-> FALSE, chars |-> FALSE, timer |-> FALSE,  \* selectedPeripheral, the characteristics, heartbeatTimer
     heartbeat |-> FALSE, command |-> FALSE,                \* heartbeatWriteInFlight, commandWriteInFlight
     queue |-> <<>>]                                        \* commandWriteQueue

Command(i) == [kind |-> "command", intent |-> i, got |-> FALSE]
Heartbeat  == [kind |-> "heartbeat", got |-> FALSE]

Write == [kind : {"command"}, intent : Intent, got : BOOLEAN]
            \union [kind : {"heartbeat"}, got : BOOLEAN]

Handles == [selected : BOOLEAN, chars : BOOLEAN, timer : BOOLEAN,
            heartbeat : BOOLEAN, command : BOOLEAN, queue : Seq(Intent)]

Types ==
    /\ central \in BOOLEAN /\ session \in Session
    /\ remembered \in BOOLEAN /\ reconnect \in BOOLEAN
    /\ handles \in Handles /\ auth \in Authority /\ shown \in Intent
    /\ power \in Radio /\ news \in BOOLEAN /\ link \in {"none", "up", "closing", "stale"}
    /\ asked \subseteq {"connect", "services", "identity"}
    /\ wire \in Seq(Write) /\ notices \in Seq(Intent)
    /\ intent \in Intent /\ faults \in 0..MaxFaults /\ granted \in BOOLEAN

\* The types, and that a session keeps to one command and one heartbeat at a
\* time: one more write at most, and one more reassertion, for each failure.
TypeOK ==
    /\ Types
    /\ Len(handles.queue) <= MaxQueue + MaxFaults + 1
    /\ Len(wire) <= 2 + MaxFaults
    /\ Len(notices) <= MaxNotices

Init ==
    /\ central = TRUE /\ session = NewSession
    /\ remembered \in BOOLEAN /\ reconnect = FALSE
    /\ handles = NoHandles /\ auth = NewAuthority /\ shown = "muted"
    /\ power = "on" /\ news = TRUE /\ link = "none" /\ asked = {} /\ wire = <<>> /\ notices = <<>>
    /\ intent = "muted" /\ faults = 0 /\ granted = FALSE

Fault == faults < MaxFaults /\ faults' = faults + 1

-----------------------------------------------------------------------------
(***************************************************************************)
(* Writes.                                                                 *)
(***************************************************************************)

\* writeNextControlMessage
CanWriteCommand(h) ==
    ~h.command /\ ~h.heartbeat /\ h.queue # <<>> /\ h.selected /\ h.chars

Written(h) ==
    IF CanWriteCommand(h) THEN [h EXCEPT !.command = TRUE, !.queue = Tail(@)] ELSE h

Sent(h, w) == IF CanWriteCommand(h) THEN Append(w, Command(Head(h.queue))) ELSE w

WriteNext(h, w) == handles' = Written(h) /\ wire' = Sent(h, w)

\* enqueueControlWrites
Enqueue(i) ==
    /\ Len(handles.queue) < MaxQueue
    /\ IF handles.selected
       THEN WriteNext([handles EXCEPT !.queue = Append(@, i)], wire)
       ELSE UNCHANGED <<handles, wire>>

CanBeat == /\ CanSendCommand(session) /\ handles.selected /\ handles.chars
           /\ ~handles.heartbeat /\ ~handles.command /\ handles.queue = <<>>

\* sendHeartbeatIfDue, when it is due.
Beat ==
    IF CanBeat
    THEN /\ handles' = [handles EXCEPT !.heartbeat = TRUE]
         /\ wire' = Append(wire, Heartbeat)
    ELSE UNCHANGED <<handles, wire>>

\* clearConnectionHandles
ClearHandles ==
    /\ wire' = <<>> /\ notices' = <<>>
    /\ auth' = BeginConnectionSession(auth) /\ shown' = "muted"
    /\ granted' = FALSE

\* central.state == .poweredOn, which changes together with its callback.
SeenOn == IF news THEN session.radio = "on" ELSE power = "on"

\* perform(.startScan): a known device is connected at once, unless the system
\* has forgotten it.
StartScan(s, h, requests, wanted) ==
    \/ /\ s.radio = "on" /\ (remembered \/ wanted)
       /\ session' = KnownDeviceRediscovered(s)
       /\ handles' = [h EXCEPT !.selected = TRUE]
       /\ asked' = requests \union {"connect"} /\ reconnect' = FALSE
    \/ /\ session' = s /\ handles' = h
       /\ asked' = requests /\ reconnect' = wanted

-----------------------------------------------------------------------------
(***************************************************************************)
(* The session.                                                            *)
(***************************************************************************)

\* start, after a rebuild.
Start ==
    /\ ~central /\ central' = TRUE /\ news' = TRUE
    /\ UNCHANGED <<session, remembered, reconnect, handles, auth, shown, power, link,
                   asked, wire, notices, intent, faults, granted>>

\* centralManagerDidUpdateState
UpdateState ==
    /\ central /\ news /\ news' = FALSE
    /\ IF power = "on"
       THEN /\ StartScan(RadioChanged(session, "on"), handles, asked, reconnect)
            /\ UNCHANGED <<auth, shown, granted, wire, notices>>
       ELSE /\ ClearHandles /\ handles' = NoHandles /\ asked' = {} /\ reconnect' = FALSE
            /\ session' = RadioChanged(session, power)
    /\ UNCHANGED <<central, remembered, power, link, intent, faults>>

\* didDiscover, in a scan.  A connected device does not advertise.
Discover ==
    /\ central /\ power = "on" /\ link = "none" /\ session.phase = "scanning"
    /\ IF remembered \/ reconnect
       THEN /\ session' = KnownDeviceRediscovered(session)
            /\ handles' = [handles EXCEPT !.selected = TRUE]
            /\ asked' = asked \union {"connect"}
       ELSE session' = DeviceDiscovered(session) /\ UNCHANGED <<handles, asked>>
    /\ reconnect' = FALSE
    /\ UNCHANGED <<central, remembered, auth, shown, power, news, link, wire, notices, intent,
                   faults, granted>>

\* connect, the button.
ConnectByUser ==
    /\ session.phase = "deviceFound" /\ session' = ConnectRequested(session)
    /\ handles' = [handles EXCEPT !.selected = TRUE]
    /\ asked' = asked \union {"connect"}
    /\ UNCHANGED <<central, remembered, reconnect, auth, shown, power, news, link, wire,
                   notices, intent, faults, granted>>

\* didConnect; at once if the peripheral is still connected.
DidConnect ==
    /\ "connect" \in asked /\ power = "on" /\ link # "closing"
    /\ link' = IF link = "none" THEN "up" ELSE link
    /\ reconnect' = FALSE
    /\ session' = Connected(session)
    /\ asked' = (asked \ {"connect"}) \union
                    (IF session.phase = "connecting" THEN {"services"} ELSE {})
    /\ UNCHANGED <<central, remembered, handles, auth, shown, power, news, wire, notices,
                   intent, faults, granted>>

DidFailToConnect ==
    /\ Fault
    /\ "connect" \in asked /\ link = "none"
    /\ ClearHandles /\ handles' = NoHandles /\ asked' = {}
    /\ session' = Failed(session)
    /\ UNCHANGED <<central, remembered, reconnect, power, news, link, intent>>

Publish(i) ==
    notices' = IF link = "up" /\ Len(notices) < MaxNotices
               THEN Append(notices, i) ELSE notices

\* didDiscoverCharacteristicsFor; the state is read at once.
DidDiscover ==
    /\ "services" \in asked /\ link = "up"
    /\ handles' = [handles EXCEPT !.chars = TRUE]
    /\ session' = VendorCharacteristicsReady(session)
    /\ IF session.phase = "discoveringServices"
       THEN asked' = (asked \ {"services"}) \union {"identity"} /\ Publish(intent)
       ELSE asked' = asked \ {"services"} /\ UNCHANGED notices
    /\ UNCHANGED <<central, remembered, reconnect, auth, shown, power, news, link, wire,
                   intent, faults, granted>>

\* didUpdateValueFor the identity: a ready session reasserts its intent and
\* starts its heartbeat loop.
DidReadIdentity ==
    /\ "identity" \in asked /\ link = "up"
    /\ asked' = asked \ {"identity"}
    /\ session' = IdentityRead(session)
    /\ IF CanSendCommand(session')
       THEN LET reasserted == [handles EXCEPT !.queue = Append(@, auth.desired)] IN
            /\ handles' = [Written(reasserted) EXCEPT !.timer = TRUE, !.heartbeat = FALSE]
            /\ wire' = Sent(reasserted, wire)
            /\ remembered' = TRUE
       ELSE UNCHANGED <<handles, wire, remembered>>
    /\ UNCHANGED <<central, reconnect, auth, shown, power, news, link, notices, intent,
                   faults, granted>>

\* A read or a discovery is called back with an error.
ReadFails ==
    /\ Fault
    /\ link = "up" /\ handles.selected
    /\ session' = Failed(session)
    /\ \E request \in {"services", "identity", "state"} : asked' = asked \ {request}
    /\ UNCHANGED <<central, remembered, reconnect, handles, auth, shown, power, news, link,
                   wire, notices, intent, granted>>

\* didModifyServices
DidModifyServices ==
    /\ Fault
    /\ link = "up" /\ handles.selected
    /\ handles' = [handles EXCEPT !.chars = FALSE, !.timer = FALSE, !.heartbeat = FALSE]
    /\ session' = ServicesInvalidated(session)
    /\ asked' = IF session'.phase = "discoveringServices" THEN asked \union {"services"}
                                                          ELSE asked
    /\ UNCHANGED <<central, remembered, reconnect, auth, shown, power, news, link, wire,
                   notices, intent, granted>>

\* didDisconnectPeripheral, of a link that was lost or cancelled.
DidDisconnect ==
    /\ \/ link = "up" /\ Fault
       \/ link = "closing" /\ UNCHANGED faults
    /\ central /\ link' = "none"
    /\ ClearHandles
    /\ LET s == Disconnected(session) IN
       IF s.phase = "scanning"
       THEN StartScan(s, NoHandles, {}, reconnect \/ session.device)
       ELSE /\ session' = s /\ handles' = NoHandles /\ asked' = {}
            /\ reconnect' = (reconnect \/ session.device)
    /\ UNCHANGED <<central, remembered, power, news, intent>>

\* retry, the button of a failed session.
Retry ==
    /\ session.phase = "failed" /\ session.radio = "on"
    /\ StartScan(RetryRequested(session), handles, asked, reconnect)
    /\ UNCHANGED <<central, remembered, auth, shown, power, news, link, wire, notices, intent,
                   faults, granted>>

\* forgetRememberedDevice
Forget ==
    /\ ClearHandles /\ handles' = NoHandles /\ asked' = {}
    /\ remembered' = FALSE /\ reconnect' = FALSE
    /\ link' = IF central /\ handles.selected /\ link # "none" THEN "closing" ELSE link
    /\ central' = TRUE /\ news' = (news \/ ~central)
    /\ session' = IF central /\ SeenOn THEN RadioChanged(NewSession, "on")
                                             ELSE NewSession
    /\ UNCHANGED <<power, intent, faults>>

\* rebuildBluetoothSessionAfterHeartbeatFailure
Rebuild ==
    /\ central' = FALSE /\ reconnect' = TRUE
    /\ ClearHandles /\ handles' = NoHandles /\ asked' = {}
    /\ session' = NewSession
    /\ link' = "none"
    /\ UNCHANGED <<remembered, power, news, intent>>

-----------------------------------------------------------------------------
(***************************************************************************)
(* Commands, heartbeats and notifications.                                 *)
(***************************************************************************)

\* toggleMicrophoneIntent
ToggleMicrophone ==
    /\ CanSendCommand(session)
    /\ auth' = ToggleByUser(auth)
    /\ granted' = (granted \/ auth'.desired = "live")
    /\ Enqueue(auth'.desired)
    /\ UNCHANGED <<central, session, remembered, reconnect, shown, power, news, link, asked,
                   notices, intent, faults>>

\* The timer.
HeartbeatTimer ==
    /\ handles.timer /\ CanBeat
    /\ Beat
    /\ UNCHANGED <<central, session, remembered, reconnect, auth, shown, power, news, link,
                   asked, notices, intent, faults, granted>>

\* A mutation: the arbitration is asked before the watchdog.
WatchdogAfterQueue ==
    /\ handles.timer /\ CanSendCommand(session)
    /\ handles.selected /\ handles.chars /\ handles.heartbeat
    /\ handles.queue = <<>>
    /\ Rebuild /\ UNCHANGED faults

\* The timer finds a heartbeat that was not acknowledged in time.
Watchdog ==
    /\ handles.timer /\ CanSendCommand(session)
    /\ handles.selected /\ handles.chars /\ handles.heartbeat
    /\ Rebuild /\ UNCHANGED faults

\* A mutation: only a command's acknowledgement sends the next one.
AcknowledgedAlone(h, w) ==
    IF Head(w).kind = "command"
    THEN WriteNext([h EXCEPT !.command = FALSE], Tail(w))
    ELSE handles' = [h EXCEPT !.heartbeat = FALSE] /\ wire' = Tail(w)

\* didWriteValueFor without an error.
Acknowledged(h, w) ==
    IF Head(w).kind = "command" THEN WriteNext([h EXCEPT !.command = FALSE], Tail(w))
                                ELSE WriteNext([h EXCEPT !.heartbeat = FALSE], Tail(w))

DidWrite ==
    /\ link = "up" /\ wire # <<>> /\ Head(wire).got
    /\ Acknowledged(handles, wire)
    /\ UNCHANGED <<central, session, remembered, reconnect, auth, shown, power, news, link,
                   asked, notices, intent, faults, granted>>

\* didWriteValueFor with an error: the commands behind it are dropped, and a
\* heartbeat's failure rebuilds the session.
WriteFails ==
    /\ Fault
    /\ link = "up" /\ wire # <<>> /\ ~Head(wire).got
    /\ IF Head(wire).kind = "command"
       THEN /\ handles' = [handles EXCEPT !.command = FALSE, !.queue = <<>>]
            /\ wire' = Tail(wire)
            /\ UNCHANGED <<central, session, remembered, reconnect, auth, shown, power, news,
                           link, asked, notices, intent, granted>>
       ELSE Rebuild

\* recordStateValue
Notified ==
    /\ notices # <<>> /\ link = "up" /\ handles.selected
    /\ notices' = Tail(notices)
    /\ auth' = Observe(auth, Head(notices)) /\ shown' = Head(notices)
    /\ granted' = (granted \/ auth'.desired = "live")
    /\ IF Head(notices) # shown \/ NeedsCorrection(auth, Head(notices))
       THEN Beat ELSE UNCHANGED <<handles, wire>>
    /\ UNCHANGED <<central, session, remembered, reconnect, power, news, link, asked, intent,
                   faults>>

-----------------------------------------------------------------------------
(***************************************************************************)
(* The device, the radio and the air.                                      *)
(***************************************************************************)

\* The device takes the first write it has not taken; of a heartbeat's intent
\* it takes no notice.  How its loop applies a command is DeviceControl's matter.
DeviceTakes ==
    /\ link = "up"
    /\ \E i \in DOMAIN wire :
         /\ ~wire[i].got /\ \A k \in 1..(i - 1) : wire[k].got
         /\ wire' = [wire EXCEPT ![i].got = TRUE]
         /\ IF wire[i].kind = "command"
            THEN intent' = wire[i].intent /\ Publish(intent')
            ELSE UNCHANGED <<intent, notices>>
    /\ UNCHANGED <<appVars, power, news, link, asked, faults, granted>>

\* G0, a key, the lease.
DeviceDecides ==
    /\ intent' = Opposite(intent) /\ Publish(intent')
    /\ UNCHANGED <<appVars, power, news, link, asked, wire, faults, granted>>

LoseNotice ==
    /\ Fault
    /\ notices # <<>> /\ notices' = Tail(notices)
    /\ UNCHANGED <<appVars, power, news, link, asked, wire, intent, granted>>

\* "A device reset can leave CoreBluetooth without either a write or a
\* disconnect callback."
DeviceResets ==
    /\ Fault
    /\ link = "up" /\ link' = "stale"
    /\ intent' = "muted" /\ notices' = <<>>
    /\ UNCHANGED <<appVars, power, news, asked, wire, granted>>

PowerChanges ==
    /\ Fault
    /\ ~news /\ news' = TRUE /\ power' \in Radio \ {power}
    /\ link' = "none" /\ notices' = <<>>
    /\ UNCHANGED <<appVars, asked, wire, intent, granted>>

CoreBluetooth ==
    UpdateState \/ Discover \/ DidConnect \/ DidFailToConnect \/ DidDiscover
    \/ DidReadIdentity \/ ReadFails \/ DidModifyServices \/ DidDisconnect \/ DidWrite
    \/ WriteFails \/ Notified

User == ConnectByUser \/ Retry \/ Forget \/ ToggleMicrophone

Environment == DeviceTakes \/ DeviceDecides \/ LoseNotice \/ DeviceResets \/ PowerChanges

Next == Start \/ HeartbeatTimer \/ Watchdog \/ CoreBluetooth \/ User \/ Environment

Spec == Init /\ [][Next]_vars

\* The main run loop runs its timer and its callbacks, and a device that is
\* there answers.
Fairness ==
    /\ WF_vars(Start) /\ WF_vars(HeartbeatTimer) /\ WF_vars(Watchdog)
    /\ WF_vars(UpdateState) /\ WF_vars(DidConnect) /\ WF_vars(DidDiscover)
    /\ WF_vars(DidReadIdentity) /\ WF_vars(DidWrite) /\ WF_vars(DeviceTakes)
    /\ WF_vars(link = "closing" /\ DidDisconnect)

FairSpec == Spec /\ Fairness

-----------------------------------------------------------------------------
(***************************************************************************)
(* Properties.                                                             *)
(***************************************************************************)
\* A command that asks for a live microphone is queued or under way.
AsksForLive(queue, w) ==
    \/ \E i \in DOMAIN queue : queue[i] = "live"
    \/ \E i \in DOMAIN w : w[i].kind = "command" /\ w[i].intent = "live"

\* The app asks for a live microphone only if, since the last time the
\* connection was torn down, the user asked for it or the device itself was
\* live after it was seen muted: no request, no state and no queue of an
\* earlier connection opens it.
LiveWasGranted == AsksForLive(handles.queue, wire) => granted

\* "a press should reinforce what the UI offers, never invert a stale device
\* report into a new live authorization": while the window shows a live
\* microphone, a press asks for muted.
PressFollowsScreen == [][ToggleMicrophone /\ shown = "live" => auth'.desired = "muted"]_vars

SessionUnderWay ==
    /\ link = "up"
    /\ session.phase \in {"connecting", "discoveringServices", "authenticating", "ready"}

\* While a session lasts, a queued command does not wait for ever for a
\* heartbeat or for services that were invalidated: a command gets written.
CommandsAreSent ==
    handles.queue # <<>> ~> handles.command \/ handles.queue = <<>> \/ ~SessionUnderWay

\* A heartbeat that is never called back makes the app rebuild its session.
StallIsRebuilt ==
    link = "stale" /\ session.phase = "ready" /\ handles.heartbeat ~> link # "stale"

\* "Do not wait forever on that stale manager": however the device was lost, a
\* session that was ready is given up.
StaleSessionIsRebuilt == link = "stale" /\ session.phase = "ready" ~> link # "stale"
=============================================================================
