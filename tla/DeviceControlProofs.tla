------------------------ MODULE DeviceControlProofs ------------------------
(***************************************************************************)
(* Proofs about DeviceControl for every length of the leases and of a      *)
(* turn.  The inductive invariant adds to the stated properties what the   *)
(* order of the loop's statements establishes on the way: the two samples  *)
(* of the authentication level imply a running lease, and between the      *)
(* lease check and the top of the next turn the lease is not exhausted.    *)
(***************************************************************************)
EXTENDS DeviceControl, BLELink, SequenceTheorems, TLAPS

\* A domain whose gate is exactly its authorisation.
Exact(d) == d \in Domain /\ ((d.gate = "open") <=> Authorized(d))

SamplesHaveLease == lastAuth \/ seenAuth => lease.auth

\* After the lease check the link is believed only under an unexpired lease.
Checked == pc \in {"intent", "capture", "serial"} /\ domain.ble
               => lease.age < LiveLease

\* From the moment capture is set to the top of the next turn.
CaptureFresh == pc \in {"serial", "turn"} /\ capture => lease.age < LiveLease

CaptureSet == pc = "serial" => (capture <=> domain.gate = "open")

IInv ==
    /\ TypeOK /\ Exact(domain) /\ LinkHasLease /\ SamplesHaveLease
    /\ Checked /\ CaptureFresh /\ CaptureSet /\ CaptureWithinLease

-----------------------------------------------------------------------------
\* Whatever domain is given to UpdateGate, the gate of the result is exact
\* and nothing else has changed.
LEMMA UpdateGateExact ==
    ASSUME NEW d \in Domain
    PROVE  /\ Exact(UpdateGate(d))
           /\ UpdateGate(d).intent = d.intent /\ UpdateGate(d).ble = d.ble
BY DEF Domain, UpdateGate, Authorized, Exact

\* What each dispatch does to the gate and to the link.
LEMMA ToggleExact ==
    ASSUME NEW d \in Domain
    PROVE  Exact(ToggleMicIntent(d)) /\ ToggleMicIntent(d).ble = d.ble
<1> DEFINE t == [d EXCEPT !.intent = IF @ = "muted" THEN "live" ELSE "muted"]
<1>1. t \in Domain /\ t.ble = d.ble
  BY DEF Domain
<1>2. QED BY <1>1, UpdateGateExact DEF ToggleMicIntent

LEMMA MuteExact ==
    ASSUME NEW d \in Domain
    PROVE  Exact(MuteMicIntent(d)) /\ MuteMicIntent(d).ble = d.ble
<1> DEFINE m == [d EXCEPT !.intent = "muted"]
<1>1. m \in Domain /\ m.ble = d.ble
  BY DEF Domain
<1>2. QED BY <1>1, UpdateGateExact DEF MuteMicIntent

LEMMA AuthenticatedExact ==
    ASSUME NEW d \in Domain
    PROVE  Exact(ControlLinkAuthenticated(d))
<1>1. [d EXCEPT !.ble = TRUE] \in Domain
  BY DEF Domain
<1>2. QED BY <1>1, UpdateGateExact DEF ControlLinkAuthenticated

LEMMA LostExact ==
    ASSUME NEW d \in Domain
    PROVE  Exact(ControlLinkLost(d)) /\ ControlLinkLost(d).ble = FALSE
<1> DEFINE l == [d EXCEPT !.ble = FALSE, !.intent = "muted"]
<1>1. l \in Domain /\ l.ble = FALSE
  BY DEF Domain
<1>2. QED BY <1>1, UpdateGateExact DEF ControlLinkLost

LEMMA AudioExact ==
    ASSUME NEW d \in Domain, NEW b \in BOOLEAN
    PROVE  /\ Exact(WifiAudio(d, b)) /\ WifiAudio(d, b).ble = d.ble
           /\ Exact(AudioSink(d, b)) /\ AudioSink(d, b).ble = d.ble
<1> DEFINE w == [d EXCEPT !.wifi = b]
           s == [d EXCEPT !.sink = b]
<1>1. w \in Domain /\ w.ble = d.ble /\ s \in Domain /\ s.ble = d.ble
  BY DEF Domain
<1>2. QED BY <1>1, UpdateGateExact DEF WifiAudio, AudioSink

-----------------------------------------------------------------------------
LEMMA InitIInv == Init => IInv
<1> SUFFICES ASSUME Init PROVE IInv
  OBVIOUS
<1>1. Exact(domain) /\ domain.ble = FALSE
  BY DEF Init, BootUnpaired, Domain, Exact, Authorized
<1>2. lease \in Lease
  BY LeaseAssumption DEF Init, Lease, AgeCap
<1>3. TypeOK
  BY <1>1, <1>2
     DEF Init, TypeOK, BleTypes, AudioTypes, MainTypes, Phase, Exact
<1>4. QED
  BY <1>1, <1>3 DEF Init, IInv, LinkHasLease, SamplesHaveLease, Checked,
     CaptureFresh, CaptureSet, CaptureWithinLease

\* The tasks around the main task touch none of the variables the invariant
\* speaks of, beyond their types.
LEMMA OtherTasks ==
    ASSUME IInv, BleTask \/ AudioTask \/ UNCHANGED vars
    PROVE  IInv'
<1>1. UNCHANGED mainVars
  BY DEF BleTask, AudioTask, vars, mainVars
<1>2. BleTypes'
  BY DEF IInv, TypeOK, BleTypes, BleTask, AudioTask, vars, bleVars, HidConnect,
     AuthComplete, HidDisconnect, HidDisconnectEvent, VendorHeartbeat,
     VendorMicIntent, VendorOtaStart
<1>3. AudioTypes'
  BY DEF IInv, TypeOK, AudioTypes, BleTask, AudioTask, vars, audioVars
<1>4. MainTypes'
  BY <1>1 DEF IInv, TypeOK, MainTypes, mainVars
<1>5. QED
  BY <1>1, <1>2, <1>3, <1>4
     DEF IInv, TypeOK, LinkHasLease, SamplesHaveLease, Checked,
         CaptureFresh, CaptureSet, CaptureWithinLease, mainVars

\* No step of the main task writes a badly typed value to a shared flag.
LEMMA SharedTypes ==
    ASSUME IInv, MainTask
    PROVE  BleTypes' /\ AudioTypes'
<1> USE DEF IInv, TypeOK, BleTypes, AudioTypes, bleVars, audioVars
<1>1. CASE \E d \in 0..Turn : TurnStart(d)
  BY <1>1 DEF TurnStart
<1>2. CASE Commands
  BY <1>2 DEF Commands, OtaStart
<1>3. CASE Status \/ G0 \/ Keys \/ TakeDisconnectEvent
  BY <1>3 DEF Status, G0, Keys, TakeDisconnectEvent
<1>4. CASE ClearDisconnectEvent
  BY <1>4 DEF ClearDisconnectEvent
<1>5. CASE SampleAuth \/ SetCapture \/ SerialHarness
  BY <1>5 DEF SampleAuth, SetCapture, SerialHarness
<1>6. CASE HeartbeatsAndLease
  BY <1>6 DEF HeartbeatsAndLease
<1>7. CASE RemoteIntent
  BY <1>7 DEF RemoteIntent
<1>8. QED
  BY <1>1, <1>2, <1>3, <1>4, <1>5, <1>6, <1>7 DEF MainTask

\* The part of the invariant about the main task's own variables.
LEMMA MainTaskStep ==
    ASSUME IInv, MainTask
    PROVE  IInv'
<1> DEFINE Own == /\ MainTypes /\ Exact(domain) /\ LinkHasLease
                  /\ SamplesHaveLease /\ Checked /\ CaptureFresh
                  /\ CaptureSet /\ CaptureWithinLease
<1>0. /\ Own
      /\ domain \in Domain /\ lease.auth \in BOOLEAN /\ lease.age \in Nat
      /\ LiveLease \in Nat /\ Turn \in Nat /\ 1 <= Turn
      /\ MutedLease \in Nat /\ MutedLease <= LiveLease
      /\ ctlAuth \in BOOLEAN /\ ready \in BOOLEAN /\ wifiUp \in BOOLEAN
  BY LeaseAssumption
     DEF IInv, TypeOK, MainTypes, BleTypes, AudioTypes, Exact, Lease, AgeCap
<1> USE <1>0 DEF LinkHasLease, SamplesHaveLease, Checked, CaptureFresh,
                 CaptureSet, CaptureWithinLease, MainTypes, Phase, Goto
\* Steps that leave the lease and the samples alone, and only ever switch
\* capture off.
<1>a. ASSUME Exact(domain'), domain'.ble = domain.ble \/ domain'.ble = FALSE,
             UNCHANGED <<lease, lastAuth, seenAuth>>,
             tookEvent' \in BOOLEAN,
             capture' \in BOOLEAN, capture' => capture,
             pc' \in Phase \ {"intent", "serial", "turn"},
             pc' = "capture" => pc = "intent"
      PROVE  Own'
  BY <1>a DEF Exact
<1>1. ASSUME NEW d \in 0..Turn, TurnStart(d) PROVE Own'
  <2>1. /\ lease' \in Lease /\ lease'.auth = lease.auth
        /\ lease.age < LiveLease => lease'.age < LiveLease + Turn
    BY <1>1 DEF TurnStart, Capped, Lease, AgeCap
  <2>2. QED BY <1>1, <2>1 DEF TurnStart
<1>2. ASSUME Commands PROVE Own'
  <2>1. Exact(domain') /\ domain'.ble = domain.ble
    BY <1>2, ToggleExact DEF Commands, OtaStart
  <2>2. QED BY <1>a, <1>2, <2>1 DEF Commands, OtaStart
<1>3. ASSUME Status PROVE Own'
  <2> DEFINE w == IF wifiUp = domain.wifi THEN domain
                                          ELSE WifiAudio(domain, wifiUp)
  <2>1. Exact(w) /\ w \in Domain /\ w.ble = domain.ble
    BY AudioExact DEF Exact
  <2>2. domain' = IF ready = w.sink THEN w ELSE AudioSink(w, ready)
    BY <1>3 DEF Status
  <2> HIDE DEF w
  <2>3. Exact(domain') /\ domain'.ble = domain.ble
    BY <2>1, <2>2, AudioExact
  <2>4. QED BY <1>a, <1>3, <2>3 DEF Status
<1>4. ASSUME G0 PROVE Own'
  <2>1. Exact(domain') /\ domain'.ble = domain.ble
    BY <1>4, ToggleExact, MuteExact DEF G0, PhysicalStop
  <2>2. QED BY <1>a, <1>4, <2>1 DEF G0, PhysicalStop
<1>5. ASSUME Keys PROVE Own'
  <2>1. Exact(domain') /\ domain'.ble = domain.ble
    BY <1>5, MuteExact DEF Keys, PhysicalStop
  <2>2. QED BY <1>a, <1>5, <2>1 DEF Keys, PhysicalStop
<1>6. ASSUME TakeDisconnectEvent PROVE Own'
  <2>1. tookEvent' \in BOOLEAN
    BY <1>6 DEF TakeDisconnectEvent, IInv, TypeOK, BleTypes
  <2>2. QED BY <1>a, <1>6, <2>1 DEF TakeDisconnectEvent
<1>7. ASSUME ClearDisconnectEvent PROVE Own'
  <2>1. Exact(domain') /\ (domain'.ble = domain.ble \/ domain'.ble = FALSE)
    BY <1>7, LostExact DEF ClearDisconnectEvent
  <2>2. QED BY <1>a, <1>7, <2>1 DEF ClearDisconnectEvent
<1>8. ASSUME SampleAuth PROVE Own'
  <2>1. Authenticate \in Lease /\ Authenticate.auth /\ Authenticate.age = 0
    BY DEF Authenticate, Lease, AgeCap
  <2>2. CASE ctlAuth /\ ~lastAuth
    BY <1>8, <2>1, <2>2, AuthenticatedExact DEF SampleAuth, Exact
  <2>3. CASE ~(ctlAuth /\ ~lastAuth)
    BY <1>8, <2>3 DEF SampleAuth
  <2>4. QED BY <2>2, <2>3
<1>9. ASSUME HeartbeatsAndLease PROVE Own'
  <2>1. /\ Renewed \in Lease /\ Renewed.age \in Nat
        /\ Renewed.auth = lease.auth /\ Renewed.age <= lease.age
    BY DEF Renewed, Heartbeat, Lease, AgeCap
  <2>2. Exact(Reconnected) /\ Reconnected \in Domain
        /\ (Reconnected.ble => lease.auth)
    BY AuthenticatedExact DEF Reconnected, Exact
  <2>3. /\ Exact(domain') /\ domain' \in Domain
        /\ domain'.ble => lease'.auth /\ lease'.age < LiveLease
    <3>1. CASE Reconnected.ble /\ Expired(Renewed, domain.intent)
      BY <1>9, <3>1, <2>2, LostExact DEF HeartbeatsAndLease, Exact
    <3>2. CASE ~(Reconnected.ble /\ Expired(Renewed, domain.intent))
      BY <1>9, <3>2, <2>1, <2>2 DEF HeartbeatsAndLease, Expired
    <3>3. QED BY <3>1, <3>2
  <2>4. /\ lease' = Renewed /\ capture' = capture /\ pc' = "intent"
        /\ lastAuth' = lastAuth /\ seenAuth' = seenAuth
        /\ tookEvent' = tookEvent
    BY <1>9 DEF HeartbeatsAndLease
  <2>5. QED BY <2>1, <2>3, <2>4
<1>10. ASSUME RemoteIntent PROVE Own'
  <2>1. Exact(domain') /\ domain'.ble = domain.ble
    BY <1>10, ToggleExact DEF RemoteIntent
  <2>2. (capture' \in BOOLEAN) /\ (capture' => capture)
    BY <1>10 DEF RemoteIntent
  <2>3. QED BY <1>a, <1>10, <2>1, <2>2 DEF RemoteIntent
<1>11. ASSUME SetCapture PROVE Own'
  <2>1. domain.gate = "open" => domain.ble
    BY DEF Exact, Authorized
  <2>2. /\ capture' = (domain.gate = "open") /\ pc = "capture"
        /\ pc' = "serial" /\ domain' = domain /\ lease' = lease
        /\ lastAuth' = lastAuth /\ seenAuth' = seenAuth
        /\ tookEvent' = tookEvent
    BY <1>11 DEF SetCapture
  <2>3. /\ capture' \in BOOLEAN
        /\ capture' => /\ lease.auth /\ lease.age < LiveLease
                       /\ lease.age < LiveLease + Turn
    <3>1. capture' \in BOOLEAN
      BY <2>2
    <3>2. ASSUME capture'
          PROVE  /\ lease.auth /\ lease.age < LiveLease
                 /\ lease.age < LiveLease + Turn
      <4>1. domain.gate = "open" /\ pc = "capture"
        BY <3>2, <2>2
      <4>2. domain.ble
        BY <4>1, <2>1
      <4>3. lease.auth
        BY <4>2
      <4>4. lease.age < LiveLease
        BY <4>1, <4>2
      <4>5. lease.age < LiveLease + Turn
        BY <4>4
      <4>6. QED BY <4>3, <4>4, <4>5
    <3>3. QED BY <3>1, <3>2
  <2>4. MainTypes'
    BY <2>2, <2>3
  <2>5. /\ Exact(domain)' /\ LinkHasLease' /\ SamplesHaveLease' /\ Checked'
        /\ CaptureSet'
    BY <2>2
  <2>6. CaptureFresh' /\ CaptureWithinLease'
    BY <2>2, <2>3
  <2>7. QED BY <2>4, <2>5, <2>6
<1>12. ASSUME SerialHarness PROVE Own'
  <2>1. Authenticate \in Lease /\ Authenticate.auth /\ Authenticate.age = 0
    BY DEF Authenticate, Lease, AgeCap
  <2>2. /\ Heartbeat(lease) \in Lease /\ Heartbeat(lease).auth = lease.auth
        /\ Heartbeat(lease).age <= lease.age
    BY DEF Heartbeat, Lease, AgeCap
  <2>3. /\ Exact(domain') /\ domain' \in Domain
        /\ lease' \in Lease /\ lease'.age \in Nat /\ lease'.age <= lease.age
        /\ lease.auth => lease'.auth
        /\ domain'.ble => lease'.auth
    <3>1. CASE UNCHANGED <<lease, domain>>
      BY <3>1
    <3>2. CASE HarnessControl
      <4>1. ASSUME lease' = Authenticate,
                   domain' = ControlLinkAuthenticated(domain)
            PROVE  <2>3!:
        BY <4>1, <2>1, AuthenticatedExact DEF Exact
      <4>2. ASSUME lease' = lease, domain' = ControlLinkLost(domain)
            PROVE  <2>3!:
        <5>1. Exact(domain') /\ ~domain'.ble
          BY <4>2, LostExact
        <5>2. domain' \in Domain
          BY <5>1 DEF Exact
        <5>3. QED BY <4>2, <5>1, <5>2
      <4>3. ASSUME lease' = Heartbeat(lease), domain' = domain
            PROVE  <2>3!:
        BY <4>3, <2>2 DEF Lease, AgeCap
      <4>4. ASSUME lease' = lease, domain' = ToggleMicIntent(domain)
            PROVE  <2>3!:
        BY <4>4, ToggleExact DEF Exact
      <4>5. QED BY <3>2, <4>1, <4>2, <4>3, <4>4 DEF HarnessControl
    <3>3. QED BY <1>12, <3>1, <3>2 DEF SerialHarness
  <2>4. /\ capture' = capture /\ pc = "serial" /\ pc' = "turn"
        /\ lastAuth' = lastAuth /\ seenAuth' = seenAuth
        /\ tookEvent' = tookEvent
    BY <1>12 DEF SerialHarness
  <2>5. QED BY <2>3, <2>4
<1>13. Own'
  BY <1>1, <1>2, <1>3, <1>4, <1>5, <1>6, <1>7, <1>8, <1>9, <1>10, <1>11,
     <1>12 DEF MainTask
<1>14. QED
  BY <1>13, SharedTypes DEF IInv, TypeOK

\* All of the safety statements about the loop, with what the order of its
\* statements establishes between them, hold in every reachable state.
THEOREM Invariance == Spec => []IInv
<1>1. IInv /\ [Next]_vars => IInv'
  BY OtherTasks, MainTaskStep DEF Next
<1>2. QED BY InitIInv, <1>1, PTL DEF Spec

\* Every reachable state is well typed, for all lease lengths.
THEOREM TypeCorrect == Spec => []TypeOK
<1>1. IInv => TypeOK
  BY DEF IInv
<1>2. QED BY Invariance, <1>1, PTL

\* The link is never believed without a lease that can end it, so a silent
\* Mac cannot keep the domain's authorisation alive.
THEOREM LinkAlwaysLeased == Spec => []LinkHasLease
<1>1. IInv => LinkHasLease
  BY DEF IInv
<1>2. QED BY Invariance, <1>1, PTL

\* Capture ends at the latest one turn after the live lease has run out.
THEOREM CaptureBounded == Spec => []CaptureWithinLease
<1>1. IInv => CaptureWithinLease
  BY DEF IInv
<1>2. QED BY Invariance, <1>1, PTL

\* When the loop has set capture, it runs exactly if the four authorisations
\* hold and the lease has not run out.
THEOREM CaptureCorrect == Spec => []CaptureAuthorised
<1>1. IInv => CaptureAuthorised
  BY DEF IInv, CaptureAuthorised, Exact, Authorized, CaptureSet, CaptureFresh,
         CaptureWithinLease, LinkHasLease, Checked
<1>2. QED BY Invariance, <1>1, PTL

-----------------------------------------------------------------------------
(***************************************************************************)
(* DeviceControl implements CaptureAuthority: capture is switched on only  *)
(* by SetCapture, when every fact holds.                                   *)
(***************************************************************************)
LEMMA CaptureTurnsOn ==
    ASSUME IInv, Next, ~capture, capture'
    PROVE  /\ HoldingFacts = Facts
           /\ HoldingFacts' = Facts
<1>1. SetCapture
  BY DEF Next, BleTask, AudioTask, MainTask, mainVars, TurnStart, Commands,
     OtaStart, Status, G0, Keys, PhysicalStop, TakeDisconnectEvent,
     ClearDisconnectEvent, SampleAuth, HeartbeatsAndLease, RemoteIntent,
     SerialHarness
<1>2. Authorized(domain) /\ lease.auth /\ lease.age < LiveLease
  BY <1>1 DEF SetCapture, IInv, Exact, Authorized, Checked, LinkHasLease, Goto
<1>3. HoldingFacts = Facts
  BY <1>2 DEF HoldingFacts, Facts, Authorized
<1>4. HoldingFacts' = HoldingFacts
  BY <1>1 DEF SetCapture, HoldingFacts, Facts
<1>5. QED BY <1>3, <1>4

\* Every behaviour of the control plane is one the abstract promise allows.
THEOREM Refinement == Spec => ImplementsAuthority
<1>1. Init => Authority!Init
  BY DEF Init, Authority!Init, HoldingFacts
<1>2. IInv /\ [Next]_vars => [Authority!Next]_<<HoldingFacts, capture>>
  <2> SUFFICES ASSUME IInv, [Next]_vars
               PROVE  [Authority!Next]_<<HoldingFacts, capture>>
    OBVIOUS
  <2>1. HoldingFacts' \in SUBSET Facts
    BY DEF HoldingFacts
  <2>2. capture \in BOOLEAN /\ capture' \in BOOLEAN
    BY OtherTasks, MainTaskStep DEF Next, IInv, TypeOK, MainTypes
  <2>3. CASE ~capture /\ capture'
    <3>1. Next
      BY <2>3 DEF vars
    <3>2. HoldingFacts = Facts /\ HoldingFacts' = Facts
      BY <2>3, <3>1, CaptureTurnsOn
    <3>3. QED BY <2>3, <2>2, <3>2 DEF Authority!Next, Authority!Decide
  <2>4. CASE capture \/ ~capture'
    <3>1. capture' \in {capture, FALSE}
      BY <2>2, <2>4
    <3>2. QED BY <2>1, <3>1 DEF Authority!Next, Authority!Observe
  <2>5. QED BY <2>2, <2>3, <2>4
<1>3. QED
  BY Invariance, <1>1, <1>2, PTL
     DEF Spec, ImplementsAuthority, Authority!Spec
-----------------------------------------------------------------------------
(***************************************************************************)
(* The Bluetooth link under this control plane, BLELink.  Its reachable    *)
(* states follow the connection: there has been none, or none since the    *)
(* event loop last cleared its state; there is one, told or not yet told   *)
(* to the event loop; or it is lost, and the event loop has not yet come   *)
(* to clearing what it left.  The controller advertises in the first of    *)
(* these only, so a new connection never finds the authentication of an    *)
(* old one.                                                                *)
(***************************************************************************)
StackSwitches ==
    /\ advertising \in BOOLEAN /\ secure \in BOOLEAN /\ advDue \in BOOLEAN
    /\ vendor_connected \in BOOLEAN

HidSwitches ==
    /\ advertisement_configured \in BOOLEAN /\ hid_started \in BOOLEAN
    /\ hid_connected \in BOOLEAN /\ control_authenticated \in BOOLEAN

PromptSwitches == visible \in BOOLEAN /\ needs \in BOOLEAN

ButtonSwitches ==
    /\ down \in BOOLEAN /\ pairing_g0_press \in BOOLEAN
    /\ shown \in [visible : BOOLEAN, needs : BOOLEAN]

Switches == StackSwitches /\ HidSwitches /\ PromptSwitches /\ ButtonSwitches

Places ==
    /\ pairing \in {"none", "comparing", "entering", "answered"}
    /\ gap \in {"idle", "check", "drop", "fail"}
    /\ main \in {"poll", "button", "confirm", "hide", "clear", "reply"}

\* Nobody has connected since the event loop last cleared the state.
NoLinkYet ==
    /\ connection = "down" /\ events = <<>>
    /\ ~hid_connected /\ ~control_authenticated
    /\ loop \in {"idle", "check"}

NotStarted ==
    /\ connection = "down" /\ events = <<"start">>
    /\ ~hid_connected /\ ~control_authenticated
    /\ loop = "idle" /\ ~hid_started

Linked ==
    /\ connection = "up" /\ loop = "idle"
    /\ (control_authenticated => secure)
    /\ \/ events = <<"connect">> /\ ~hid_connected
       \/ events = <<>> /\ hid_connected

Lost ==
    /\ connection = "down"
    /\ \/ events = <<"connect", "disconnect">> /\ ~hid_connected /\ loop = "idle"
       \/ events = <<"disconnect">> /\ hid_connected /\ loop = "idle"
       \/ events = <<>> /\ ~hid_connected /\ loop = "clear"

\* What a connection needs was set up before it, and stays set up.
PhaseOfLink ==
    \/ NotStarted
    \/ NoLinkYet
    \/ (Linked \/ Lost) /\ hid_started /\ gap # "check" /\ ~advDue

AdvertisesFree ==
    advertising => NoLinkYet /\ hid_started /\ advertisement_configured

SetOnce == advDue => ~advertisement_configured /\ gap # "check"

\* A failed link leaves its pairing to be failed after it.
PromptIsWaitedFor == visible => pairing # "none"

LinkPart == Places /\ PhaseOfLink /\ AdvertisesFree /\ SetOnce
PromptPart == Places /\ PromptIsWaitedFor /\ PromptFollowsPairing
LinkInv == Switches /\ LinkPart /\ PromptPart

\* What is put into the queue of events and taken out of it.
LEMMA QueueOps ==
    /\ Append(<<>>, "connect") = <<"connect">>
    /\ Append(<<>>, "disconnect") = <<"disconnect">>
    /\ Append(<<"connect">>, "disconnect") = <<"connect", "disconnect">>
    /\ Head(<<"start">>) = "start" /\ Tail(<<"start">>) = <<>>
    /\ Head(<<"connect">>) = "connect" /\ Tail(<<"connect">>) = <<>>
    /\ Head(<<"disconnect">>) = "disconnect" /\ Tail(<<"disconnect">>) = <<>>
    /\ Head(<<"connect", "disconnect">>) = "connect"
    /\ Tail(<<"connect", "disconnect">>) = <<"disconnect">>
<1>1. /\ Append(<<>>, "connect") = <<"connect">>
      /\ Append(<<>>, "disconnect") = <<"disconnect">>
  OBVIOUS
<1>2. Append(<<"connect">>, "disconnect") = <<"connect", "disconnect">>
  <2> DEFINE s == Append(<<"connect">>, "disconnect")
             t == <<"connect", "disconnect">>
             K == {"connect", "disconnect"}
  <2>1. /\ <<"connect">> \in Seq(K) /\ t \in Seq(K) /\ "disconnect" \in K
        /\ Len(<<"connect">>) = 1 /\ <<"connect">>[1] = "connect"
        /\ Len(t) = 2 /\ t[1] = "connect" /\ t[2] = "disconnect"
    OBVIOUS
  <2>2. s \in Seq(K) /\ Len(s) = 2 /\ s[1] = "connect" /\ s[2] = "disconnect"
    BY <2>1, AppendProperties
  <2> HIDE DEF s, t
  <2>3. \A i \in 1..Len(s) : s[i] = t[i]
    BY <2>1, <2>2
  <2>4. s = t
    BY <2>1, <2>2, <2>3, SeqEqual
  <2>5. QED BY <2>4 DEF s, t
<1>3. Head(<<"start">>) = "start" /\ Tail(<<"start">>) = <<>>
  OBVIOUS
<1>4. Head(<<"connect">>) = "connect" /\ Tail(<<"connect">>) = <<>>
  OBVIOUS
<1>5. Head(<<"disconnect">>) = "disconnect" /\ Tail(<<"disconnect">>) = <<>>
  OBVIOUS
<1>6. /\ Head(<<"connect", "disconnect">>) = "connect"
      /\ Tail(<<"connect", "disconnect">>) = <<"disconnect">>
  OBVIOUS
<1>7. QED BY <1>1, <1>2, <1>3, <1>4, <1>5, <1>6

\* The parts are the type invariant.
LEMMA LinkTypes == LinkInv => LinkTypeOK
<1> SUFFICES ASSUME LinkInv PROVE LinkTypeOK
  OBVIOUS
<1> DEFINE Kinds == {"start", "connect", "disconnect"}
<1>1. /\ <<>> \in Seq(Kinds) /\ Len(<<>>) = 0
      /\ <<"start">> \in Seq(Kinds) /\ Len(<<"start">>) = 1
      /\ <<"connect">> \in Seq(Kinds) /\ Len(<<"connect">>) = 1
      /\ <<"disconnect">> \in Seq(Kinds) /\ Len(<<"disconnect">>) = 1
      /\ <<"connect", "disconnect">> \in Seq(Kinds)
      /\ Len(<<"connect", "disconnect">>) = 2
  OBVIOUS
<1>2. events \in Seq(Kinds) /\ Len(events) <= 3
  <2>1. events \in {<<>>, <<"start">>, <<"connect">>, <<"disconnect">>,
                    <<"connect", "disconnect">>}
    BY Zenon
       DEF LinkInv, LinkPart, PhaseOfLink, NotStarted, NoLinkYet, Linked, Lost
  <2>2. CASE events = <<>>
    BY <1>1, <2>2
  <2>3. CASE events = <<"start">>
    BY <1>1, <2>3
  <2>4. CASE events = <<"connect">>
    BY <1>1, <2>4
  <2>5. CASE events = <<"disconnect">>
    BY <1>1, <2>5
  <2>6. CASE events = <<"connect", "disconnect">>
    BY <1>1, <2>6
  <2>7. QED BY <2>1, <2>2, <2>3, <2>4, <2>5, <2>6
<1>3. connection \in {"up", "down"} /\ loop \in {"idle", "clear", "check"}
  BY Zenon
     DEF LinkInv, LinkPart, PhaseOfLink, NotStarted, NoLinkYet, Linked, Lost
<1>4. QED BY <1>2, <1>3
      DEF LinkInv, LinkPart, Switches, StackSwitches, HidSwitches,
          PromptSwitches, ButtonSwitches, Places, LinkTypeOK

\* Nothing has been set up, and the prompt is hidden.
LEMMA LinkStarts == LinkInit => LinkInv
<1> SUFFICES ASSUME LinkInit PROVE LinkInv
  OBVIOUS
<1>1. Switches /\ Places
  BY DEF LinkInit, Switches, StackSwitches, HidSwitches, PromptSwitches,
         ButtonSwitches, Places
<1>2. PhaseOfLink /\ AdvertisesFree /\ SetOnce
  BY DEF LinkInit, PhaseOfLink, NotStarted, NoLinkYet, Linked, Lost,
         AdvertisesFree, SetOnce
<1>3. PromptIsWaitedFor /\ PromptFollowsPairing
  BY DEF LinkInit, PromptIsWaitedFor, PromptFollowsPairing
<1>4. QED BY <1>1, <1>2, <1>3 DEF LinkInv, LinkPart, PromptPart

\* The flags stay flags.
LEMMA SwitchesStep == Switches /\ LinkNext => Switches'
<1> SUFFICES ASSUME Switches, LinkNext PROVE Switches'
  OBVIOUS
<1> USE DEF Switches, stackVars, flags, prompt, buttonVars
<1>1. CASE Bluedroid
  <2>1. StackSwitches'
    BY <1>1
       DEF StackSwitches, Bluedroid, AdvDataSet,
           AdvDataChecked, Connect, LinkLost,
           VendorDisconnected, PairingPrompt, AuthCompleted,
           Authenticated, StartAdvertisingIfReady
  <2>2. HidSwitches'
    BY <1>1
       DEF HidSwitches, Bluedroid, AdvDataSet, AdvDataChecked,
           Connect, LinkLost, VendorDisconnected,
           PairingPrompt, AuthCompleted, Authenticated
  <2>3. PromptSwitches'
    BY <1>1
       DEF PromptSwitches, Bluedroid, AdvDataSet,
           AdvDataChecked, Connect, LinkLost,
           VendorDisconnected, PairingPrompt, AuthCompleted,
           Authenticated
  <2>4. ButtonSwitches'
    BY <1>1
       DEF ButtonSwitches, Bluedroid, AdvDataSet,
           AdvDataChecked, Connect, LinkLost,
           VendorDisconnected, PairingPrompt, AuthCompleted,
           Authenticated
  <2>5. QED BY <2>1, <2>2, <2>3, <2>4
<1>2. CASE EventLoop
  <2>1. StackSwitches'
    BY <1>2
       DEF StackSwitches, EventLoop, HidStarted, HidConnected,
           HidDisconnected, HidCleared, HidChecked,
           StartAdvertisingIfReady
  <2>2. HidSwitches'
    BY <1>2
       DEF HidSwitches, EventLoop, HidStarted, HidConnected,
           HidDisconnected, HidCleared, HidChecked
  <2>3. PromptSwitches'
    BY <1>2
       DEF PromptSwitches, EventLoop, HidStarted, HidConnected,
           HidDisconnected, HidCleared, HidChecked
  <2>4. ButtonSwitches'
    BY <1>2
       DEF ButtonSwitches, EventLoop, HidStarted, HidConnected,
           HidDisconnected, HidCleared, HidChecked
  <2>5. QED BY <2>1, <2>2, <2>3, <2>4
<1>3. CASE MainTurn
  <2>1. StackSwitches'
    BY <1>3
       DEF StackSwitches, MainTurn, Poll, Press, Release,
           NoEdge, ConfirmPairing
  <2>2. HidSwitches'
    BY <1>3
       DEF HidSwitches, MainTurn, Poll, Press, Release,
           NoEdge, ConfirmPairing
  <2>3. PromptSwitches'
    BY <1>3
       DEF PromptSwitches, MainTurn, Poll, Press, Release,
           NoEdge, ConfirmPairing
  <2>4. ButtonSwitches'
    <3> USE DEF ButtonSwitches
    <3>1. CASE Poll
      BY <3>1 DEF PromptSwitches, Poll
    <3>2. CASE Press
      <4>1. shown.visible \in BOOLEAN
        OBVIOUS
      <4>2. QED BY <3>2, <4>1 DEF Press
    <3>3. CASE Release \/ NoEdge
      BY <3>3 DEF Release, NoEdge
    <3>4. QED BY <1>3, <3>1, <3>2, <3>3 DEF MainTurn
  <2>5. QED BY <2>1, <2>2, <2>3, <2>4
<1>4. QED BY <1>1, <1>2, <1>3 DEF LinkNext

\* Every task stays at a place of its own.
LEMMA PlacesStep == Places /\ LinkNext => Places'
<1> SUFFICES ASSUME Places, LinkNext PROVE Places'
  OBVIOUS
<1> USE DEF Places, stackVars, flags, prompt, buttonVars
<1>1. CASE Bluedroid
  BY <1>1
     DEF Bluedroid, AdvDataSet, AdvDataChecked, Connect,
         LinkLost, VendorDisconnected, PairingPrompt,
         AuthCompleted, Authenticated
<1>2. CASE EventLoop
  BY <1>2
     DEF EventLoop, HidStarted, HidConnected,
         HidDisconnected, HidCleared, HidChecked
<1>3. CASE MainTurn
  BY <1>3
     DEF MainTurn, Poll, Press, Release, NoEdge,
         ConfirmPairing, GoesTo
<1>4. QED BY <1>1, <1>2, <1>3 DEF LinkNext

\* The callbacks of Bluedroid: links come only where the last one has been
\* cleared, and go only into the queue.
LEMMA LinkStackStep ==
    ASSUME LinkPart, Bluedroid
    PROVE  PhaseOfLink' /\ AdvertisesFree' /\ SetOnce'
<1> USE
   DEF LinkPart, Places, PhaseOfLink, NotStarted, NoLinkYet, Linked, Lost,
       AdvertisesFree, SetOnce, stackVars, flags
<1>1. CASE AdvDataSet
  BY <1>1 DEF AdvDataSet
<1>2. CASE AdvDataChecked
  BY <1>2 DEF AdvDataChecked, StartAdvertisingIfReady
<1>3. CASE Connect
  BY <1>3, QueueOps DEF Connect
<1>4. CASE LinkLost
  BY <1>4, QueueOps DEF LinkLost
<1>5. CASE VendorDisconnected
  BY <1>5 DEF VendorDisconnected
<1>6. CASE PairingPrompt
  BY <1>6 DEF PairingPrompt
<1>7. CASE AuthCompleted
  BY <1>7 DEF AuthCompleted, Authenticated
<1>8. QED BY <1>1, <1>2, <1>3, <1>4, <1>5, <1>6, <1>7 DEF Bluedroid

\* The event loop follows the link one event behind.
LEMMA LinkLoopStep ==
    ASSUME LinkPart, EventLoop
    PROVE  PhaseOfLink' /\ AdvertisesFree' /\ SetOnce'
<1> USE
   DEF LinkPart, Places, PhaseOfLink, NotStarted, NoLinkYet, Linked, Lost,
       AdvertisesFree, SetOnce, stackVars, flags
<1>1. CASE HidStarted
  BY <1>1, QueueOps DEF HidStarted, Event
<1>2. CASE HidConnected
  BY <1>2, QueueOps DEF HidConnected, Event
<1>3. CASE HidDisconnected
  BY <1>3, QueueOps DEF HidDisconnected, Event
<1>4. CASE HidCleared
  BY <1>4 DEF HidCleared
<1>5. CASE HidChecked
  BY <1>5 DEF HidChecked, StartAdvertisingIfReady
<1>6. QED BY <1>1, <1>2, <1>3, <1>4, <1>5 DEF EventLoop

\* A prompt is shown and hidden with the pairing it is about.
LEMMA PromptStackStep ==
    ASSUME PromptPart, Bluedroid
    PROVE  PromptIsWaitedFor' /\ PromptFollowsPairing'
<1> USE
   DEF PromptPart, Places, PromptIsWaitedFor, PromptFollowsPairing,
       stackVars, flags, prompt, buttonVars
<1>1. CASE AdvDataSet
  BY <1>1 DEF AdvDataSet
<1>2. CASE AdvDataChecked
  BY <1>2 DEF AdvDataChecked
<1>3. CASE Connect
  BY <1>3 DEF Connect
<1>4. CASE LinkLost
  BY <1>4 DEF LinkLost
<1>5. CASE VendorDisconnected
  BY <1>5 DEF VendorDisconnected
<1>6. CASE PairingPrompt
  BY <1>6 DEF PairingPrompt
<1>7. CASE AuthCompleted
  BY <1>7 DEF AuthCompleted, Authenticated
<1>8. QED BY <1>1, <1>2, <1>3, <1>4, <1>5, <1>6, <1>7 DEF Bluedroid

LEMMA PromptLoopStep ==
    ASSUME PromptPart, EventLoop
    PROVE  PromptIsWaitedFor' /\ PromptFollowsPairing'
<1>1. UNCHANGED <<pairing, prompt, gap, main>>
  BY DEF EventLoop, HidStarted, HidConnected,
         HidDisconnected, HidCleared, HidChecked,
         stackVars, buttonVars
<1>2. QED BY <1>1
      DEF PromptPart, PromptIsWaitedFor, PromptFollowsPairing,
          prompt

\* The main task hides the prompt before it answers, never after.
LEMMA PromptMainStep ==
    ASSUME LinkPart, PromptPart, MainTurn
    PROVE  /\ PhaseOfLink' /\ AdvertisesFree' /\ SetOnce'
           /\ PromptIsWaitedFor' /\ PromptFollowsPairing'
<1>1. UNCHANGED <<advertising, connection, secure, events, advDue, flags,
                  gap, loop>>
  BY DEF MainTurn, Poll, Press, Release, NoEdge,
         ConfirmPairing, stackVars
<1>2. PhaseOfLink' /\ AdvertisesFree' /\ SetOnce'
  BY <1>1
     DEF LinkPart, PhaseOfLink, NotStarted, NoLinkYet, Linked, Lost,
         AdvertisesFree, SetOnce, flags
<1> USE <1>1
   DEF PromptPart, Places, PromptIsWaitedFor, PromptFollowsPairing,
       stackVars, prompt, GoesTo
<1>3. CASE Poll
  BY <1>2, <1>3 DEF Poll
<1>4. CASE Press
  BY <1>2, <1>4 DEF Press
<1>5. CASE Release
  BY <1>2, <1>5 DEF Release
<1>6. CASE NoEdge
  BY <1>2, <1>6 DEF NoEdge
<1>7. CASE ConfirmPairing
  BY <1>2, <1>7 DEF ConfirmPairing
<1>8. QED BY <1>3, <1>4, <1>5, <1>6, <1>7 DEF MainTurn

\* The link follows its phases and the prompt its pairing: the inductive
\* invariant.
THEOREM LinkInvariance == LinkSpec => []LinkInv
<1> USE DEF LinkInv, LinkPart, PromptPart
<1>1. LinkInv /\ LinkNext => LinkInv'
  BY SwitchesStep, PlacesStep, LinkStackStep, LinkLoopStep, PromptStackStep,
     PromptLoopStep, PromptMainStep
     DEF LinkNext
<1>2. LinkInv /\ UNCHANGED linkVars => LinkInv'
  <2> SUFFICES ASSUME LinkInv, UNCHANGED linkVars PROVE LinkInv'
    OBVIOUS
  <2> USE DEF linkVars, stackVars, flags, prompt, buttonVars
  <2>1. Switches' /\ Places'
    <3>1. Switches'
      BY DEF Switches, StackSwitches, HidSwitches, PromptSwitches,
             ButtonSwitches
    <3>2. QED BY <3>1 DEF Places
  <2>2. PhaseOfLink' /\ AdvertisesFree' /\ SetOnce'
    BY Zenon
       DEF PhaseOfLink, NotStarted, NoLinkYet, Linked, Lost, AdvertisesFree,
           SetOnce
  <2>3. PromptIsWaitedFor' /\ PromptFollowsPairing'
    BY Zenon DEF PromptIsWaitedFor, PromptFollowsPairing
  <2>4. QED BY <2>1, <2>2, <2>3
<1>3. QED BY <1>1, <1>2, LinkStarts, PTL DEF LinkSpec

\* What s_control_authenticated says is true of the link there is, whatever
\* the three tasks interleave.
THEOREM ThisLinkIsAuthenticated == LinkSpec => []LinkInvariant
<1>1. LinkInv => LinkInvariant
  BY LinkTypes
     DEF LinkInv, LinkPart, PhaseOfLink, NotStarted, NoLinkYet, Linked, Lost,
         LinkInvariant, AuthenticatedIsThisLink
<1>2. QED BY <1>1, LinkInvariance, PTL

\* A comparison the Mac waits for is on the screen or being answered, and what
\* is on the screen is still waited for.
THEOREM PromptIsTrue == LinkSpec => []PromptFollowsPairing
<1>1. LinkInv => PromptFollowsPairing
  BY DEF LinkInv, PromptPart
<1>2. QED BY <1>1, LinkInvariance, PTL
=============================================================================
