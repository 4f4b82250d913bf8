-------------------------- MODULE AppControlProofs --------------------------
(***************************************************************************)
(* What AppControl guarantees for every bound of its queues and failures:  *)
(* the types, that a live microphone is asked for only if it was granted   *)
(* in this connection session, and that a press follows the screen.        *)
(***************************************************************************)
EXTENDS AppControl, TLAPS

\* A press that awaits the device differs from what the device last said, and
\* nothing else does; before the device was seen muted the app wants muted.
Settled(a) ==
    IF a.baseline THEN a.pending <=> a.desired # a.observed
                  ELSE a.desired = "muted" /\ ~a.pending

\* The window shows a live microphone only if the device last said so.
ShownWasObserved == shown = "live" => auth.observed = "live"

Granted == auth.desired = "live" \/ AsksForLive(handles.queue, wire) => granted

AppInv == Types /\ Settled(auth) /\ ShownWasObserved /\ Granted

-----------------------------------------------------------------------------
(***************************************************************************)
(* The operators.                                                          *)
(***************************************************************************)
LEMMA BeginSettles ==
    ASSUME NEW a \in Authority
    PROVE  /\ BeginConnectionSession(a) \in Authority /\ Settled(BeginConnectionSession(a))
           /\ BeginConnectionSession(a).desired = "muted"
  BY DEF BeginConnectionSession, Authority, Intent, Settled

LEMMA ObserveSettles ==
    ASSUME NEW a \in Authority, Settled(a), NEW i \in Intent
    PROVE  /\ Observe(a, i) \in Authority /\ Settled(Observe(a, i))
           /\ Observe(a, i).observed = i
  BY DEF Observe, Authority, Intent, Settled

LEMMA ToggleSettles ==
    ASSUME NEW a \in Authority, Settled(a)
    PROVE  /\ ToggleByUser(a) \in Authority /\ Settled(ToggleByUser(a))
           /\ ToggleByUser(a).observed = a.observed
           /\ a.observed = "live" => ToggleByUser(a).desired = "muted"
  BY DEF ToggleByUser, Opposite, Authority, Intent, Settled

LEMMA SessionTypes ==
    ASSUME NEW s \in Session
    PROVE  /\ NewSession \in Session
           /\ \A r \in Radio : RadioChanged(s, r) \in Session
           /\ DeviceDiscovered(s) \in Session /\ KnownDeviceRediscovered(s) \in Session
           /\ ConnectRequested(s) \in Session /\ Connected(s) \in Session
           /\ VendorCharacteristicsReady(s) \in Session /\ IdentityRead(s) \in Session
           /\ ServicesInvalidated(s) \in Session /\ Disconnected(s) \in Session
           /\ Failed(s) \in Session /\ RetryRequested(s) \in Session
  <1>1. NewSession \in Session
    BY DEF NewSession, Session, Radio, Phase
  <1>2. \A r \in Radio : RadioChanged(s, r) \in Session
    BY DEF RadioChanged, Session, Radio, Phase
  <1>3. /\ DeviceDiscovered(s) \in Session /\ KnownDeviceRediscovered(s) \in Session
        /\ ConnectRequested(s) \in Session /\ Connected(s) \in Session
    BY DEF DeviceDiscovered, KnownDeviceRediscovered, ConnectRequested, Connected,
           InPhase, Session, Radio, Phase
  <1>4. /\ VendorCharacteristicsReady(s) \in Session /\ IdentityRead(s) \in Session
        /\ ServicesInvalidated(s) \in Session /\ Disconnected(s) \in Session
    BY DEF VendorCharacteristicsReady, IdentityRead, ServicesInvalidated, Disconnected,
           InPhase, Session, Radio, Phase
  <1>5. Failed(s) \in Session /\ RetryRequested(s) \in Session
    BY DEF Failed, RetryRequested, InPhase, Session, Radio, Phase
  <1> QED BY <1>1, <1>2, <1>3, <1>4, <1>5

LEMMA NoHandlesAsksNothing ==
    NoHandles \in Handles /\ <<>> \in Seq(Write) /\ ~AsksForLive(NoHandles.queue, <<>>)
  BY DEF NoHandles, Handles, AsksForLive

LEMMA CommandIsWrite ==
    /\ \A i \in Intent : Command(i) \in Write
    /\ Heartbeat \in Write
  BY DEF Command, Heartbeat, Write

\* Moving a command from the queue to the air asks for nothing new.
LEMMA WritingAsksNothingNew ==
    ASSUME NEW h \in Handles, NEW w \in Seq(Write)
    PROVE  /\ Written(h) \in Handles /\ Sent(h, w) \in Seq(Write)
           /\ AsksForLive(Written(h).queue, Sent(h, w)) => AsksForLive(h.queue, w)
  <1>1. CASE ~CanWriteCommand(h)
    BY <1>1 DEF Written, Sent
  <1>2. CASE CanWriteCommand(h)
    <2>1. h.queue \in Seq(Intent) /\ h.queue # <<>>
      BY <1>2 DEF CanWriteCommand, Handles
    <2>2. /\ Head(h.queue) \in Intent /\ Tail(h.queue) \in Seq(Intent)
          /\ Head(h.queue) = h.queue[1] /\ 1 \in DOMAIN h.queue
          /\ \A i \in DOMAIN Tail(h.queue) : /\ i + 1 \in DOMAIN h.queue
                                             /\ Tail(h.queue)[i] = h.queue[i + 1]
      BY <2>1
    <2>3. Written(h) \in Handles /\ Written(h).queue = Tail(h.queue)
      BY <1>2, <2>2 DEF Written, Handles
    <2> DEFINE c == Command(Head(h.queue))
    <2>4. c \in Write
      BY <2>2, CommandIsWrite
    <2>5. Sent(h, w) = Append(w, c)
      BY <1>2 DEF Sent
    <2>6. Append(w, c) \in Seq(Write)
          /\ \A i \in DOMAIN Append(w, c) : \/ i \in DOMAIN w /\ Append(w, c)[i] = w[i]
                                            \/ Append(w, c)[i] = c
      <3> HIDE DEF c
      <3> QED BY <2>4
    <2>7. c.kind = "command" /\ c.intent = Head(h.queue)
      BY DEF Command
    <2>8. ASSUME AsksForLive(Tail(h.queue), Append(w, c)) PROVE AsksForLive(h.queue, w)
      <3> HIDE DEF c
      <3> QED BY <2>8, <2>2, <2>6, <2>7 DEF AsksForLive
    <2> QED BY <2>3, <2>5, <2>6, <2>8
  <1> QED BY <1>1, <1>2

LEMMA AppendAsks ==
    ASSUME NEW h \in Handles, NEW w \in Seq(Write), NEW i \in Intent
    PROVE  /\ [h EXCEPT !.queue = Append(@, i)] \in Handles
           /\ AsksForLive(Append(h.queue, i), w) => AsksForLive(h.queue, w) \/ i = "live"
  BY SMTT(20) DEF Handles, AsksForLive

LEMMA TailAsksNothingNew ==
    ASSUME NEW q \in Seq(Intent), NEW w \in Seq(Write), w # <<>>
    PROVE  /\ Tail(w) \in Seq(Write)
           /\ AsksForLive(q, Tail(w)) => AsksForLive(q, w)
  <1>1. /\ Tail(w) \in Seq(Write)
        /\ \A i \in DOMAIN Tail(w) : i + 1 \in DOMAIN w /\ Tail(w)[i] = w[i + 1]
    OBVIOUS
  <1> QED BY <1>1 DEF AsksForLive

-----------------------------------------------------------------------------
(***************************************************************************)
(* The parts that actions share.                                           *)
(***************************************************************************)
Requests == SUBSET {"connect", "services", "identity"}

\* Tearing the connection down leaves nothing that asks for a live microphone.
LEMMA ClearingAsksNothing ==
    ASSUME AppInv, ClearHandles, handles'.queue = <<>>
    PROVE  /\ auth' \in Authority /\ shown' \in Intent /\ granted' \in BOOLEAN
           /\ wire' \in Seq(Write) /\ notices' \in Seq(Intent)
           /\ Settled(auth)' /\ ShownWasObserved' /\ Granted'
  <1>1. /\ auth' \in Authority /\ Settled(auth') /\ auth'.desired = "muted"
    BY BeginSettles DEF AppInv, Types, ClearHandles
  <1>2. shown' = "muted" /\ granted' = FALSE /\ wire' = <<>> /\ notices' = <<>>
    BY DEF ClearHandles
  <1>3. ~AsksForLive(handles'.queue, wire')
    BY <1>2 DEF AsksForLive
  <1>4. Settled(auth)'
    BY <1>1 DEF Settled
  <1>5. shown' \in Intent /\ wire' \in Seq(Write) /\ notices' \in Seq(Intent)
    BY <1>2 DEF Intent
  <1>7. granted' \in BOOLEAN
    BY <1>2
  <1>6. ShownWasObserved' /\ Granted'
    BY <1>1, <1>2, <1>3 DEF ShownWasObserved, Granted
  <1> QED BY <1>1, <1>4, <1>5, <1>6, <1>7

\* Looking for the device changes only the session and whether one is selected.
LEMMA ScanningKeepsQueue ==
    ASSUME NEW s \in Session, NEW h \in Handles, NEW r \in Requests, NEW b \in BOOLEAN,
           StartScan(s, h, r, b)
    PROVE  /\ session' \in Session /\ handles' \in Handles /\ handles'.queue = h.queue
           /\ asked' \in Requests /\ reconnect' \in BOOLEAN
  <1>1. KnownDeviceRediscovered(s) \in Session
    BY SessionTypes
  <1> DEFINE selecting == [h EXCEPT !.selected = TRUE]
  <1>2. selecting \in Handles /\ selecting.queue = h.queue
    BY DEF Handles
  <1>3. \/ /\ session' = KnownDeviceRediscovered(s) /\ handles' = selecting
           /\ asked' = r \union {"connect"} /\ reconnect' = FALSE
        \/ session' = s /\ handles' = h /\ asked' = r /\ reconnect' = b
    BY DEF StartScan
  <1> HIDE DEF selecting
  <1> QED BY <1>1, <1>2, <1>3 DEF Requests

LEMMA NoticesTypes ==
    ASSUME AppInv, NEW i \in Intent, Publish(i)
    PROVE  notices' \in Seq(Intent)
  BY DEF Publish, AppInv, Types

LEMMA FaultTypes ==
    ASSUME AppInv, Fault
    PROVE  faults' \in 0..MaxFaults
  BY AppAssumption DEF Fault, AppInv, Types

\* An action that leaves the intent alone grants and asks for nothing.
LEMMA SameIntent ==
    ASSUME AppInv, UNCHANGED <<auth, shown, granted>>,
           AsksForLive(handles'.queue, wire') =>
               AsksForLive(handles.queue, wire) \/ auth.desired = "live"
    PROVE  Settled(auth)' /\ ShownWasObserved' /\ Granted'
  BY DEF AppInv, Settled, ShownWasObserved, Granted

LEMMA RebuildingKeepsInv ==
    ASSUME AppInv, Rebuild, faults' \in 0..MaxFaults
    PROVE  AppInv'
  <1>1. handles' \in Handles /\ handles'.queue = <<>>
    BY NoHandlesAsksNothing DEF Rebuild, NoHandles
  <1>2. NewSession \in Session
    BY SessionTypes DEF AppInv, Types
  <1>3. Rebuild /\ ClearHandles
    BY DEF Rebuild
  <1> QED BY <1>1, <1>2, <1>3, ClearingAsksNothing DEF AppInv, Types, Rebuild

LEMMA AppInit == Init => AppInv
  <1> SUFFICES ASSUME Init PROVE AppInv
    OBVIOUS
  <1>1. NewSession \in Session
    BY DEF NewSession, Session, Radio, Phase
  <1>2. NewAuthority \in Authority /\ Settled(NewAuthority) /\ NewAuthority.desired = "muted"
    BY DEF NewAuthority, Authority, Intent, Settled
  <1>3. ~AsksForLive(handles.queue, wire) /\ handles \in Handles
    BY NoHandlesAsksNothing DEF Init
  <1>4. Types
    <2>1. wire \in Seq(Write) /\ notices \in Seq(Intent)
      BY DEF Init
    <2>2. faults \in 0..MaxFaults
      BY AppAssumption DEF Init
    <2> QED BY <1>1, <1>2, <1>3, <2>1, <2>2 DEF Init, Types, Intent, Radio
  <1> QED BY <1>2, <1>3, <1>4 DEF Init, AppInv, ShownWasObserved, Granted

-----------------------------------------------------------------------------
(***************************************************************************)
(* The actions.                                                            *)
(***************************************************************************)
LEMMA ConnectingKeepsInv ==
    ASSUME AppInv, Start \/ Discover \/ ConnectByUser \/ DidConnect \/ DidDiscover
    PROVE  AppInv'
  <1> USE DEF AppInv
  <1>1. CASE Start
    <2>1. Types'
      BY <1>1 DEF Start, Types
    <2> QED BY <1>1, <2>1, SameIntent DEF Start
  <1>2. CASE Discover
    <2>1. session' \in Session
      BY <1>2, SessionTypes DEF Discover, Types
    <2>2. handles' \in Handles /\ handles'.queue = handles.queue
      BY <1>2 DEF Discover, Types, Handles
    <2>3. Types'
      BY <1>2, <2>1, <2>2 DEF Discover, Types
    <2> QED BY <1>2, <2>2, <2>3, SameIntent DEF Discover
  <1>3. CASE ConnectByUser
    <2>1. session' \in Session
      BY <1>3, SessionTypes DEF ConnectByUser, Types
    <2>2. handles' \in Handles /\ handles'.queue = handles.queue
      BY <1>3 DEF ConnectByUser, Types, Handles
    <2>3. Types'
      BY <1>3, <2>1, <2>2 DEF ConnectByUser, Types
    <2> QED BY <1>3, <2>2, <2>3, SameIntent DEF ConnectByUser
  <1>4. CASE DidConnect
    <2>1. session' \in Session
      BY <1>4, SessionTypes DEF DidConnect, Types
    <2>2. Types'
      BY <1>4, <2>1 DEF DidConnect, Types
    <2> QED BY <1>4, <2>2, SameIntent DEF DidConnect
  <1>5. CASE DidDiscover
    <2>1. session' \in Session
      BY <1>5, SessionTypes DEF DidDiscover, Types
    <2>2. handles' \in Handles /\ handles'.queue = handles.queue
      BY <1>5 DEF DidDiscover, Types, Handles
    <2>3. notices' \in Seq(Intent)
      BY <1>5, NoticesTypes DEF DidDiscover, Types
    <2>4. Types'
      BY <1>5, <2>1, <2>2, <2>3 DEF DidDiscover, Types
    <2> QED BY <1>5, <2>2, <2>4, SameIntent DEF DidDiscover
  <1> QED BY <1>1, <1>2, <1>3, <1>4, <1>5

LEMMA TroubleKeepsInv ==
    ASSUME AppInv,
           ReadFails \/ DidModifyServices \/ Retry \/ LoseNotice \/ DeviceResets \/ PowerChanges
    PROVE  AppInv'
  <1> USE DEF AppInv
  <1>1. CASE ReadFails
    <2>1. session' \in Session /\ faults' \in 0..MaxFaults
      BY <1>1, SessionTypes, FaultTypes DEF ReadFails, Types
    <2>2. Types'
      BY <1>1, <2>1 DEF ReadFails, Types
    <2> QED BY <1>1, <2>2, SameIntent DEF ReadFails
  <1>2. CASE DidModifyServices
    <2>1. session' \in Session /\ faults' \in 0..MaxFaults
      BY <1>2, SessionTypes, FaultTypes DEF DidModifyServices, Types
    <2>2. handles' \in Handles /\ handles'.queue = handles.queue
      BY <1>2 DEF DidModifyServices, Types, Handles
    <2>3. Types'
      BY <1>2, <2>1, <2>2 DEF DidModifyServices, Types
    <2> QED BY <1>2, <2>2, <2>3, SameIntent DEF DidModifyServices
  <1>3. CASE Retry
    <2>1. RetryRequested(session) \in Session
      BY SessionTypes DEF Types
    <2>2. /\ session' \in Session /\ handles' \in Handles /\ handles'.queue = handles.queue
          /\ asked' \in Requests /\ reconnect' \in BOOLEAN
      BY <1>3, <2>1, ScanningKeepsQueue DEF Retry, Types, Requests
    <2>3. Types'
      BY <1>3, <2>2 DEF Retry, Types, Requests
    <2> QED BY <1>3, <2>2, <2>3, SameIntent DEF Retry
  <1>4. CASE LoseNotice
    <2>1. notices' \in Seq(Intent) /\ faults' \in 0..MaxFaults
      BY <1>4, FaultTypes DEF LoseNotice, Types
    <2>2. Types'
      BY <1>4, <2>1 DEF LoseNotice, appVars, Types
    <2> QED BY <1>4, <2>2, SameIntent DEF LoseNotice, appVars
  <1>5. CASE DeviceResets
    <2>1. notices' \in Seq(Intent) /\ faults' \in 0..MaxFaults
      BY <1>5, FaultTypes DEF DeviceResets
    <2>2. Types'
      BY <1>5, <2>1 DEF DeviceResets, appVars, Types, Intent
    <2> QED BY <1>5, <2>2, SameIntent DEF DeviceResets, appVars
  <1>6. CASE PowerChanges
    <2>1. notices' \in Seq(Intent) /\ faults' \in 0..MaxFaults
      BY <1>6, FaultTypes DEF PowerChanges
    <2>2. Types'
      BY <1>6, <2>1 DEF PowerChanges, appVars, Types
    <2> QED BY <1>6, <2>2, SameIntent DEF PowerChanges, appVars
  <1> QED BY <1>1, <1>2, <1>3, <1>4, <1>5, <1>6

LEMMA TearingDownKeepsInv ==
    ASSUME AppInv, UpdateState \/ DidFailToConnect \/ DidDisconnect \/ Forget \/ Watchdog
    PROVE  AppInv'
  <1> USE DEF AppInv
  <1>0. NoHandles \in Handles /\ NoHandles.queue = <<>> /\ {} \in Requests
    BY NoHandlesAsksNothing DEF NoHandles, Requests
  <1>1. CASE UpdateState
    <2>1. CASE power = "on"
      <3>1. RadioChanged(session, "on") \in Session
        BY SessionTypes DEF Types, Radio
      <3>2. /\ session' \in Session /\ handles' \in Handles /\ handles'.queue = handles.queue
            /\ asked' \in Requests /\ reconnect' \in BOOLEAN
        BY <1>1, <2>1, <3>1, ScanningKeepsQueue DEF UpdateState, Types, Requests
      <3>3. Types'
        BY <1>1, <2>1, <3>2 DEF UpdateState, Types, Requests
      <3> QED BY <1>1, <2>1, <3>2, <3>3, SameIntent DEF UpdateState
    <2>2. CASE power # "on"
      <3>1. session' \in Session
        BY <1>1, <2>2, SessionTypes DEF UpdateState, Types
      <3>2. ClearHandles /\ handles' = NoHandles
        BY <1>1, <2>2 DEF UpdateState
      <3>3. /\ auth' \in Authority /\ shown' \in Intent /\ granted' \in BOOLEAN
            /\ wire' \in Seq(Write) /\ notices' \in Seq(Intent)
            /\ Settled(auth)' /\ ShownWasObserved' /\ Granted'
        BY <1>0, <3>2, ClearingAsksNothing
      <3>4. Types'
        BY <1>0, <1>1, <2>2, <3>1, <3>2, <3>3 DEF UpdateState, Types
      <3> QED BY <3>3, <3>4
    <2> QED BY <2>1, <2>2
  <1>2. CASE DidFailToConnect
    <2>1. session' \in Session /\ faults' \in 0..MaxFaults
      BY <1>2, SessionTypes, FaultTypes DEF DidFailToConnect, Types
    <2>2. ClearHandles /\ handles' = NoHandles
      BY <1>2 DEF DidFailToConnect
    <2>3. /\ auth' \in Authority /\ shown' \in Intent /\ granted' \in BOOLEAN
          /\ wire' \in Seq(Write) /\ notices' \in Seq(Intent)
          /\ Settled(auth)' /\ ShownWasObserved' /\ Granted'
      BY <1>0, <2>2, ClearingAsksNothing
    <2>4. Types'
      BY <1>0, <1>2, <2>1, <2>2, <2>3 DEF DidFailToConnect, Types
    <2> QED BY <2>3, <2>4
  <1>3. CASE DidDisconnect
    <2>1. Disconnected(session) \in Session /\ session.device \in BOOLEAN
      BY SessionTypes DEF Types, Session
    <2>2. /\ session' \in Session /\ handles' \in Handles /\ handles'.queue = <<>>
          /\ asked' \in Requests /\ reconnect' \in BOOLEAN
      <3> DEFINE s == Disconnected(session)
      <3>1. CASE s.phase = "scanning"
        <4>1. StartScan(s, NoHandles, {}, reconnect \/ session.device)
          BY <1>3, <3>1 DEF DidDisconnect
        <4>2. (reconnect \/ session.device) \in BOOLEAN
          OBVIOUS
        <4> HIDE DEF s
        <4> QED BY <1>0, <2>1, <4>1, <4>2, ScanningKeepsQueue DEF s
      <3>2. CASE s.phase # "scanning"
        BY <1>0, <1>3, <2>1, <3>2 DEF DidDisconnect, Types
      <3> QED BY <3>1, <3>2
    <2>3. ClearHandles
      BY <1>3 DEF DidDisconnect
    <2>4. faults' \in 0..MaxFaults
      BY <1>3, FaultTypes DEF DidDisconnect, Types
    <2>5. /\ auth' \in Authority /\ shown' \in Intent /\ granted' \in BOOLEAN
          /\ wire' \in Seq(Write) /\ notices' \in Seq(Intent)
          /\ Settled(auth)' /\ ShownWasObserved' /\ Granted'
      BY <2>2, <2>3, ClearingAsksNothing
    <2>6. Types'
      BY <1>3, <2>2, <2>4, <2>5 DEF DidDisconnect, Types, Requests
    <2> QED BY <2>5, <2>6
  <1>4. CASE Forget
    <2>1. session' \in Session
      <3>1. NewSession \in Session
        BY SessionTypes DEF Types
      <3>2. RadioChanged(NewSession, "on") \in Session
        BY <3>1, SessionTypes DEF Radio
      <3> QED BY <1>4, <3>1, <3>2 DEF Forget
    <2>2. ClearHandles /\ handles' = NoHandles
      BY <1>4 DEF Forget
    <2>3. /\ auth' \in Authority /\ shown' \in Intent /\ granted' \in BOOLEAN
          /\ wire' \in Seq(Write) /\ notices' \in Seq(Intent)
          /\ Settled(auth)' /\ ShownWasObserved' /\ Granted'
      BY <1>0, <2>2, ClearingAsksNothing
    <2>4. Types'
      BY <1>0, <1>4, <2>1, <2>2, <2>3 DEF Forget, Types
    <2> QED BY <2>3, <2>4
  <1>5. CASE Watchdog
    <2>1. Rebuild /\ faults' \in 0..MaxFaults
      BY <1>5 DEF Watchdog, Types
    <2> QED BY <2>1, RebuildingKeepsInv
  <1> QED BY <1>1, <1>2, <1>3, <1>4, <1>5

LEMMA BeatKeepsQueue ==
    ASSUME AppInv, Beat
    PROVE  /\ handles' \in Handles /\ wire' \in Seq(Write)
           /\ AsksForLive(handles'.queue, wire') => AsksForLive(handles.queue, wire)
  <1>1. handles \in Handles /\ wire \in Seq(Write)
    BY DEF AppInv, Types
  <1>2. CASE ~CanBeat
    BY <1>1, <1>2 DEF Beat
  <1>3. CASE CanBeat
    <2>1. handles' \in Handles /\ handles'.queue = handles.queue
      BY <1>1, <1>3 DEF Beat, Handles
    <2>2. wire' = Append(wire, Heartbeat) /\ Heartbeat \in Write /\ Heartbeat.kind = "heartbeat"
      BY <1>3, CommandIsWrite DEF Beat, Heartbeat
    <2>3. /\ wire' \in Seq(Write)
          /\ \A i \in DOMAIN wire' : (i \in DOMAIN wire /\ wire'[i] = wire[i]) \/ wire'[i] = Heartbeat
      BY <1>1, <2>2
    <2> QED BY <2>1, <2>2, <2>3 DEF AsksForLive
  <1> QED BY <1>2, <1>3

LEMMA AcknowledgingAsksNothingNew ==
    ASSUME AppInv, wire # <<>>, Acknowledged(handles, wire)
    PROVE  /\ handles' \in Handles /\ wire' \in Seq(Write)
           /\ AsksForLive(handles'.queue, wire') => AsksForLive(handles.queue, wire)
  <1> DEFINE freed == IF Head(wire).kind = "command" THEN [handles EXCEPT !.command = FALSE]
                                                     ELSE [handles EXCEPT !.heartbeat = FALSE]
  <1>1. freed \in Handles /\ freed.queue = handles.queue
    BY DEF AppInv, Types, Handles
  <1>2. handles' = Written(freed) /\ wire' = Sent(freed, Tail(wire))
    BY DEF Acknowledged, WriteNext
  <1>3. handles.queue \in Seq(Intent)
    BY DEF AppInv, Types, Handles
  <1>4. /\ Tail(wire) \in Seq(Write)
        /\ AsksForLive(handles.queue, Tail(wire)) => AsksForLive(handles.queue, wire)
    BY <1>3, TailAsksNothingNew DEF AppInv, Types
  <1> HIDE DEF freed
  <1>5. /\ Written(freed) \in Handles /\ Sent(freed, Tail(wire)) \in Seq(Write)
        /\ AsksForLive(Written(freed).queue, Sent(freed, Tail(wire))) =>
              AsksForLive(freed.queue, Tail(wire))
    BY <1>1, <1>4, WritingAsksNothingNew
  <1> QED BY <1>1, <1>2, <1>4, <1>5

\* What is queued for writing asks for a live microphone only if what was
\* appended does.
LEMMA EnqueueingAsks ==
    ASSUME AppInv, NEW i \in Intent,
           WriteNext([handles EXCEPT !.queue = Append(@, i)], wire)
    PROVE  /\ handles' \in Handles /\ wire' \in Seq(Write)
           /\ AsksForLive(handles'.queue, wire') =>
                 AsksForLive(handles.queue, wire) \/ i = "live"
  <1> DEFINE h == [handles EXCEPT !.queue = Append(@, i)]
  <1>1. handles \in Handles /\ wire \in Seq(Write)
    BY DEF AppInv, Types
  <1>2. h \in Handles /\ h.queue = Append(handles.queue, i)
    BY <1>1, SMTT(20) DEF Handles
  <1>3. handles' = Written(h) /\ wire' = Sent(h, wire)
    BY DEF WriteNext
  <1>4. AsksForLive(Append(handles.queue, i), wire) => AsksForLive(handles.queue, wire) \/ i = "live"
    BY <1>1, AppendAsks
  <1> HIDE DEF h
  <1> QED BY <1>1, <1>2, <1>3, <1>4, WritingAsksNothingNew

LEMMA ReadyKeepsInv ==
    ASSUME AppInv, DidReadIdentity
    PROVE  AppInv'
  <1> USE DEF AppInv
  <1>1. session' \in Session
    BY SessionTypes DEF DidReadIdentity, Types
  <1>2. /\ handles' \in Handles /\ wire' \in Seq(Write) /\ remembered' \in BOOLEAN
        /\ AsksForLive(handles'.queue, wire') =>
              AsksForLive(handles.queue, wire) \/ auth.desired = "live"
    <2> DEFINE h == [handles EXCEPT !.queue = Append(@, auth.desired)]
    <2>1. /\ handles \in Handles /\ wire \in Seq(Write) /\ auth.desired \in Intent
          /\ remembered \in BOOLEAN
      BY DEF Types, Authority
    <2>2. h \in Handles /\ h.queue = Append(handles.queue, auth.desired)
      BY <2>1, SMTT(20) DEF Handles
    <2>3. AsksForLive(Append(handles.queue, auth.desired), wire) =>
              AsksForLive(handles.queue, wire) \/ auth.desired = "live"
      BY <2>1, AppendAsks
    <2>4. \/ handles' = handles /\ wire' = wire /\ remembered' = remembered
          \/ /\ handles' = [Written(h) EXCEPT !.timer = TRUE, !.heartbeat = FALSE]
             /\ wire' = Sent(h, wire) /\ remembered' = TRUE
      BY DEF DidReadIdentity
    <2> HIDE DEF h
    <2>5. /\ Written(h) \in Handles /\ Sent(h, wire) \in Seq(Write)
          /\ AsksForLive(Written(h).queue, Sent(h, wire)) => AsksForLive(h.queue, wire)
      BY <2>1, <2>2, WritingAsksNothingNew
    <2> DEFINE ready == [Written(h) EXCEPT !.timer = TRUE, !.heartbeat = FALSE]
    <2>6. ready \in Handles /\ ready.queue = Written(h).queue
      BY <2>5 DEF Handles
    <2>7. \/ handles' = handles /\ wire' = wire /\ remembered' = remembered
          \/ handles' = ready /\ wire' = Sent(h, wire) /\ remembered' = TRUE
      BY <2>4
    <2> HIDE DEF ready
    <2> QED BY <2>1, <2>2, <2>3, <2>5, <2>6, <2>7
  <1>3. Types'
    BY <1>1, <1>2 DEF DidReadIdentity, Types
  <1> QED BY <1>2, <1>3, SameIntent DEF DidReadIdentity

LEMMA PressKeepsInv ==
    ASSUME AppInv, ToggleMicrophone
    PROVE  AppInv'
  <1> USE DEF AppInv
  <1>1. /\ auth' \in Authority /\ Settled(auth') /\ auth'.observed = auth.observed
        /\ auth'.desired \in Intent
    BY ToggleSettles DEF ToggleMicrophone, Types, Authority
  <1>2. granted' = (granted \/ auth'.desired = "live") /\ granted' \in BOOLEAN
    BY DEF ToggleMicrophone, Types
  <1>3. /\ handles' \in Handles /\ wire' \in Seq(Write)
        /\ AsksForLive(handles'.queue, wire') =>
              AsksForLive(handles.queue, wire) \/ auth'.desired = "live"
    <2>1. CASE handles.selected
      BY <1>1, <2>1, EnqueueingAsks DEF ToggleMicrophone, Enqueue
    <2>2. CASE ~handles.selected
      BY <2>2 DEF ToggleMicrophone, Enqueue, Types
    <2> QED BY <2>1, <2>2
  <1>4. Types'
    BY <1>1, <1>2, <1>3 DEF ToggleMicrophone, Types
  <1>5. Settled(auth)'
    BY <1>1 DEF Settled
  <1>6. ShownWasObserved'
    BY <1>1 DEF ToggleMicrophone, ShownWasObserved
  <1>7. Granted'
    BY <1>2, <1>3 DEF Granted
  <1> QED BY <1>4, <1>5, <1>6, <1>7

LEMMA NotifiedKeepsInv ==
    ASSUME AppInv, Notified
    PROVE  AppInv'
  <1> USE DEF AppInv
  <1> DEFINE i == Head(notices)
  <1>1. i \in Intent /\ notices' \in Seq(Intent)
    BY DEF Notified, Types
  <1>2. auth' = Observe(auth, i) /\ shown' = i
    BY DEF Notified
  <1>3. granted' = (granted \/ auth'.desired = "live") /\ granted' \in BOOLEAN
    BY DEF Notified, Types
  <1>4. /\ handles' \in Handles /\ wire' \in Seq(Write)
        /\ AsksForLive(handles'.queue, wire') => AsksForLive(handles.queue, wire)
    BY BeatKeepsQueue DEF Notified, Types
  <1> HIDE DEF i
  <1>5. auth' \in Authority /\ Settled(auth') /\ auth'.observed = i
    BY <1>1, <1>2, ObserveSettles DEF Types
  <1>6. Types'
    BY <1>1, <1>2, <1>3, <1>4, <1>5 DEF Notified, Types
  <1>7. Settled(auth)'
    BY <1>5 DEF Settled
  <1>8. ShownWasObserved'
    BY <1>2, <1>5 DEF ShownWasObserved
  <1>9. Granted'
    BY <1>3, <1>4 DEF Granted
  <1> QED BY <1>6, <1>7, <1>8, <1>9

LEMMA WritesKeepInv ==
    ASSUME AppInv, HeartbeatTimer \/ DidWrite \/ WriteFails
    PROVE  AppInv'
  <1> USE DEF AppInv
  <1>1. CASE HeartbeatTimer
    <2>1. /\ handles' \in Handles /\ wire' \in Seq(Write)
          /\ AsksForLive(handles'.queue, wire') => AsksForLive(handles.queue, wire)
      BY <1>1, BeatKeepsQueue DEF HeartbeatTimer
    <2>2. Types'
      BY <1>1, <2>1 DEF HeartbeatTimer, Types
    <2> QED BY <1>1, <2>1, <2>2, SameIntent DEF HeartbeatTimer
  <1>2. CASE DidWrite
    <2>1. /\ handles' \in Handles /\ wire' \in Seq(Write)
          /\ AsksForLive(handles'.queue, wire') => AsksForLive(handles.queue, wire)
      BY <1>2, AcknowledgingAsksNothingNew DEF DidWrite
    <2>2. Types'
      BY <1>2, <2>1 DEF DidWrite, Types
    <2> QED BY <1>2, <2>1, <2>2, SameIntent DEF DidWrite
  <1>3. CASE WriteFails
    <2>1. faults' \in 0..MaxFaults
      BY <1>3, FaultTypes DEF WriteFails
    <2>2. CASE Head(wire).kind = "command"
      <3>1. handles' \in Handles /\ handles'.queue = <<>>
        <4>1. handles \in Handles /\ <<>> \in Seq(Intent)
          BY DEF Types
        <4>2. handles' = [handles EXCEPT !.command = FALSE, !.queue = <<>>]
          BY <1>3, <2>2 DEF WriteFails
        <4> QED BY <4>1, <4>2 DEF Handles
      <3>2. wire \in Seq(Write) /\ wire # <<>> /\ wire' = Tail(wire) /\ <<>> \in Seq(Intent)
        BY <1>3, <2>2 DEF WriteFails, Types
      <3>3. wire' \in Seq(Write) /\ (AsksForLive(<<>>, wire') => AsksForLive(<<>>, wire))
        BY <3>2, TailAsksNothingNew
      <3>4. AsksForLive(<<>>, wire) => AsksForLive(handles.queue, wire)
        BY DEF AsksForLive
      <3>5. Types'
        BY <1>3, <2>1, <2>2, <3>1, <3>3 DEF WriteFails, Types
      <3> QED BY <1>3, <2>2, <3>1, <3>3, <3>4, <3>5, SameIntent DEF WriteFails
    <2>3. CASE Head(wire).kind # "command"
      BY <1>3, <2>1, <2>3, RebuildingKeepsInv DEF WriteFails
    <2> QED BY <2>2, <2>3
  <1> QED BY <1>1, <1>2, <1>3

LEMMA ReplacedInSequence ==
    ASSUME NEW S, NEW q \in Seq(S), NEW i \in DOMAIN q, NEW e \in S
    PROVE  /\ [q EXCEPT ![i] = e] \in Seq(S) /\ DOMAIN [q EXCEPT ![i] = e] = DOMAIN q
           /\ \A k \in DOMAIN q : [q EXCEPT ![i] = e][k] = IF k = i THEN e ELSE q[k]
  OBVIOUS

\* Taking a write changes nothing of it but that it was taken.
LEMMA DeviceKeepsInv ==
    ASSUME AppInv, DeviceTakes \/ DeviceDecides
    PROVE  AppInv'
  <1> USE DEF AppInv
  <1>1. CASE DeviceTakes
    <2>1. PICK i \in DOMAIN wire :
            /\ wire' = [wire EXCEPT ![i].got = TRUE]
            /\ IF wire[i].kind = "command"
               THEN intent' = wire[i].intent /\ Publish(intent')
               ELSE UNCHANGED <<intent, notices>>
      BY <1>1 DEF DeviceTakes
    <2>2. wire \in Seq(Write) /\ wire[i] \in Write
      BY <2>1 DEF Types
    <2> DEFINE taken == [wire[i] EXCEPT !.got = TRUE]
    <2>3. /\ taken \in Write /\ taken.kind = wire[i].kind
          /\ wire[i].kind = "command" => taken.intent = wire[i].intent /\ wire[i].intent \in Intent
      <3>1. CASE wire[i] \in [kind : {"command"}, intent : Intent, got : BOOLEAN]
        BY <3>1 DEF Write
      <3>2. CASE wire[i] \in [kind : {"heartbeat"}, got : BOOLEAN]
        BY <3>2 DEF Write
      <3> QED BY <2>2, <3>1, <3>2 DEF Write
    <2>4. wire' = [wire EXCEPT ![i] = taken]
      BY <2>1
    <2> HIDE DEF taken
    <2>5. /\ wire' \in Seq(Write) /\ DOMAIN wire' = DOMAIN wire
          /\ \A k \in DOMAIN wire : wire'[k] = IF k = i THEN taken ELSE wire[k]
      <3>1. taken \in Write /\ wire \in Seq(Write) /\ i \in DOMAIN wire
        BY <2>2, <2>3
      <3>2. /\ [wire EXCEPT ![i] = taken] \in Seq(Write)
            /\ DOMAIN [wire EXCEPT ![i] = taken] = DOMAIN wire
            /\ \A k \in DOMAIN wire :
                   [wire EXCEPT ![i] = taken][k] = IF k = i THEN taken ELSE wire[k]
        BY <3>1, ReplacedInSequence
      <3> QED BY <2>4, <3>2
    <2>6. handles' = handles
      BY <1>1 DEF DeviceTakes, appVars
    <2>7. AsksForLive(handles'.queue, wire') => AsksForLive(handles.queue, wire)
      BY <2>3, <2>5, <2>6 DEF AsksForLive
    <2>8. intent' \in Intent
      BY <2>1, <2>3 DEF Types
    <2>9. notices' \in Seq(Intent)
      BY <2>1, <2>8, NoticesTypes DEF Types
    <2>10. Types'
      BY <1>1, <2>5, <2>8, <2>9 DEF DeviceTakes, appVars, Types
    <2> QED BY <1>1, <2>7, <2>10, SameIntent DEF DeviceTakes, appVars
  <1>2. CASE DeviceDecides
    <2>1. intent' \in Intent
      BY <1>2 DEF DeviceDecides, Opposite, Intent
    <2>2. notices' \in Seq(Intent)
      BY <1>2, <2>1, NoticesTypes DEF DeviceDecides
    <2>3. Types'
      BY <1>2, <2>1, <2>2 DEF DeviceDecides, appVars, Types
    <2> QED BY <1>2, <2>3, SameIntent DEF DeviceDecides, appVars
  <1> QED BY <1>1, <1>2

LEMMA StepKeepsInv == AppInv /\ [Next]_vars => AppInv'
  <1> SUFFICES ASSUME AppInv, [Next]_vars PROVE AppInv'
    OBVIOUS
  <1>1. CASE UNCHANGED vars
    BY <1>1 DEF vars, appVars, btVars, AppInv, Types, Settled, ShownWasObserved, Granted
  <1>2. CASE Next
    BY <1>2, ConnectingKeepsInv, TroubleKeepsInv, TearingDownKeepsInv, ReadyKeepsInv,
       PressKeepsInv, NotifiedKeepsInv, WritesKeepInv, DeviceKeepsInv
    DEF Next, CoreBluetooth, User, Environment
  <1> QED BY <1>1, <1>2

-----------------------------------------------------------------------------
(***************************************************************************)
(* The theorems.                                                           *)
(***************************************************************************)
THEOREM AppInvHolds == Spec => []AppInv
  BY AppInit, StepKeepsInv, PTL DEF Spec

\* Every variable of the app's session keeps its type, whatever fails.
THEOREM AppTypes == Spec => []Types
  <1>1. AppInv => Types
    BY DEF AppInv
  <1> QED BY <1>1, AppInvHolds, PTL

\* No request, state or queue of an earlier connection session opens the
\* microphone: a command that asks for "live" was granted in this one.
THEOREM LiveIsGranted == Spec => []LiveWasGranted
  <1>1. AppInv => LiveWasGranted
    BY DEF AppInv, Granted, LiveWasGranted
  <1> QED BY <1>1, AppInvHolds, PTL

\* A press while the window shows a live microphone asks for "muted".
THEOREM PressAsksForMuted == Spec => PressFollowsScreen
  <1>1. AppInv /\ [Next]_vars => [ToggleMicrophone /\ shown = "live" => auth'.desired = "muted"]_vars
    <2> SUFFICES ASSUME AppInv, ToggleMicrophone, shown = "live"
                 PROVE  auth'.desired = "muted"
      OBVIOUS
    <2>1. auth \in Authority /\ Settled(auth) /\ auth.observed = "live"
      BY DEF AppInv, Types, ShownWasObserved
    <2> QED BY <2>1, ToggleSettles DEF ToggleMicrophone
  <1> QED BY <1>1, AppInvHolds, PTL DEF Spec, PressFollowsScreen
=============================================================================
