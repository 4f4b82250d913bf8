--------------------------- MODULE AudioTransport ---------------------------
(***************************************************************************)
(* The device's side of an audio session: the main task that applies       *)
(* offers, marks the receiver ready and switches capture, the Wi-Fi event   *)
(* task, and the two tasks that carry sound, audio_capture_task and         *)
(* audio_transport_task, with the ring between them.                        *)
(*                                                                         *)
(* The main and the Wi-Fi task run on core 0, the two audio tasks on core   *)
(* 1, where transport has the higher priority: capture takes a step only    *)
(* while transport is blocked, and transport preempts it anywhere.  One     *)
(* step is one access to a flag another core writes, with the code up to    *)
(* the next such access.  Waits have a timeout, so a notification only      *)
(* makes a step earlier and is left out.                                    *)
(*                                                                         *)
(* Sequence numbers are kept as what the receiver compares: does a proof's  *)
(* number directly follow the previous proof's?                             *)
(***************************************************************************)
EXTENDS Naturals, Sequences

CONSTANTS
    Sessions,       \* how many sessions the Mac may offer; offered in order
    Drops,          \* how often Wi-Fi may be lost
    Losses,         \* how many proofs of a burst the network may lose
    RingCapacity,   \* kCaptureRingFrames
    TestPackets,    \* kTestPacketCount
    EndPackets      \* kEndPacketCount

ASSUME TransportAssumption ==
    /\ Drops \in Nat /\ Losses \in Nat
    /\ {Sessions, RingCapacity, TestPackets, EndPackets} \subseteq Nat \ {0}

\* Three proofs in a row, and one more for a number that capture takes (it is 5).
ASSUME BurstAssumption == TestPackets >= 4

VARIABLES
    cmds,           \* g_control_command_queue, and the writes under way to it
    mainPc,         \* where the main task is in device_audio_apply_offer
    offer,          \* s_offer, a session
    gen,            \* s_offer_generation, by the session whose offer it published
    ready,          \* s_receiver_ready
    enabled,        \* s_capture_enabled
    wifi,           \* s_wifi_connected, and which store the handler does next
    wifiGen,        \* s_wifi_generation
    pc,             \* audio_transport_task
    t,              \* its locals; socket is the session whose port it sends to, or 0
    ring,           \* s_capture_ring: the offer generation of each frame
    capPc,          \* audio_capture_task
    capGen,         \* its local, generation: what the frame was begun under
    gap,            \* a number was taken from s_next_wire_sequence since the last proof
    burst           \* the proofs of one send_session_proofs

mainVars    == <<mainPc, offer, gen>>
wifiVars    == <<wifi, wifiGen>>
captureVars == <<capPc, capGen>>
wireVars    == <<gap, burst>>
deviceVars  == <<cmds, mainPc, offer, gen, ready, enabled, wifi, wifiGen, pc, t,
                 ring, capPc, capGen, gap, burst>>

Session == 1..Sessions
Command == [kind : {"offer", "ready"}, sid : Session]

Locals == [gen : 0..Sessions, offer : 0..Sessions, activeGen : 0..Sessions,
           wifiGen : 0..(Drops + 1), socket : 0..Sessions, due : BOOLEAN, recording : BOOLEAN,
           frame : 0..Sessions, ends : 0..EndPackets]

DeviceTypeOK ==
    /\ cmds \in Seq(Command) /\ mainPc \in {"idle", "store", "bump"}
    /\ offer \in 0..Sessions /\ gen \in 0..Sessions
    /\ ready \in BOOLEAN /\ enabled \in BOOLEAN
    /\ wifi \in {"down", "rising", "up"} /\ wifiGen \in 0..(Drops + 1)
    /\ pc \in {"wait", "top", "offer", "connect", "retry", "ready", "proof",
               "pop", "send", "end"}
    /\ t \in Locals /\ ring \in Seq(1..Sessions) /\ Len(ring) <= RingCapacity
    /\ capPc \in {"idle", "record", "number", "push"} /\ capGen \in 0..Sessions
    /\ gap \in BOOLEAN
    /\ burst \in [n : 0..TestPackets, run : 0..TestPackets, best : 0..TestPackets,
                  quiet : BOOLEAN, lost : 0..Losses]

\* How many proofs were sent, the last and the longest run of numbers that
\* follow each other, was the receiver never ready meanwhile, and how many of
\* the datagrams were lost on the way?
NoProofs == [n |-> 0, run |-> 0, best |-> 0, quiet |-> TRUE, lost |-> 0]

DeviceInit ==
    /\ cmds = <<>> /\ mainPc = "idle" /\ offer = 0 /\ gen = 0
    /\ ready = FALSE /\ enabled = FALSE /\ wifi = "down" /\ wifiGen = 0
    /\ pc = "wait" /\ ring = <<>> /\ capPc = "idle" /\ capGen = 0
    /\ t = [gen |-> 0, offer |-> 0, activeGen |-> 0, wifiGen |-> 0, socket |-> 0,
            due |-> TRUE, recording |-> FALSE,
            frame |-> 0, ends |-> 0]
    /\ gap = FALSE
    /\ burst = NoProofs

-----------------------------------------------------------------------------
(***************************************************************************)
(* The main task.  s_offer_active is raised together with the first        *)
(* generation, and nothing reads it before the generation is not 0.        *)
(***************************************************************************)
Idle == mainPc = "idle" /\ cmds # <<>>
audioTasks == <<pc, t, ring, captureVars, wireVars>>

\* device_audio_apply_offer: the same offer again changes nothing, whether power
\* save can be switched off or not.
OfferUnchanged ==
    /\ Idle /\ Head(cmds) = [kind |-> "offer", sid |-> offer]
    /\ cmds' = Tail(cmds)
    /\ UNCHANGED <<mainPc, offer, gen, ready, enabled, wifiVars, audioTasks>>

\* A mutation: the new offer is stored while the old receiver still counts.
OfferKeepsReady ==
    /\ Idle /\ Head(cmds).kind = "offer" /\ Head(cmds).sid # offer
    /\ mainPc' = "store"
    /\ UNCHANGED <<cmds, ready, offer, gen, enabled, wifiVars, audioTasks>>

OfferClearsReady ==
    /\ Idle /\ Head(cmds).kind = "offer" /\ Head(cmds).sid # offer
    /\ ready' = FALSE /\ mainPc' = "store"
    /\ UNCHANGED <<cmds, offer, gen, enabled, wifiVars, audioTasks>>

\* The Wi-Fi power save could not be switched off: the device has let go of
\* its receiver and keeps the offer it had.
OfferRefused ==
    /\ mainPc = "store"
    /\ mainPc' = "idle" /\ cmds' = Tail(cmds)
    /\ UNCHANGED <<offer, gen, ready, enabled, wifiVars, audioTasks>>

OfferStored ==
    /\ mainPc = "store"
    /\ offer' = Head(cmds).sid /\ mainPc' = "bump"
    /\ UNCHANGED <<cmds, gen, ready, enabled, wifiVars, audioTasks>>

OfferPublished ==
    /\ mainPc = "bump"
    /\ gen' = offer /\ mainPc' = "idle" /\ cmds' = Tail(cmds)
    /\ UNCHANGED <<offer, ready, enabled, wifiVars, audioTasks>>

ApplyOffer == OfferUnchanged \/ OfferClearsReady \/ OfferStored \/ OfferPublished

\* device_audio_mark_receiver_ready takes a mark only for the current offer.
MarksCurrent(sid) == gen # 0 /\ offer = sid

\* The Wi-Fi power save could not be switched: a mark that counts is lost.
MarkRefused ==
    /\ Idle /\ Head(cmds).kind = "ready" /\ MarksCurrent(Head(cmds).sid)
    /\ cmds' = Tail(cmds)
    /\ UNCHANGED <<mainVars, ready, enabled, wifiVars, audioTasks>>

MarkReceiverReady ==
    /\ Idle /\ Head(cmds).kind = "ready"
    /\ cmds' = Tail(cmds)
    /\ ready' = (ready \/ MarksCurrent(Head(cmds).sid))
    /\ burst' = [burst EXCEPT !.quiet = @ /\ ~(pc = "proof" /\ ready')]
    /\ UNCHANGED <<mainPc, offer, gen, enabled, wifiVars, pc, t, ring,
                   captureVars, gap>>

\* device_audio_set_capture_enabled: the gate opens only for a ready receiver.
SetCaptureEnabled ==
    /\ mainPc = "idle" /\ (enabled \/ ready) /\ enabled' = ~enabled
    /\ UNCHANGED <<mainVars, ready, wifiVars, audioTasks>>

MainTask == ApplyOffer \/ MarkReceiverReady
\* What fails leaves the command behind: nobody tells the Mac, nothing is retried.
MainRefuses == OfferRefused \/ MarkRefused

(***************************************************************************)
(* wifi_event.                                                             *)
(***************************************************************************)
GotIp ==
    /\ \/ wifi = "down" /\ wifiGen <= Drops /\ wifi' = "rising" /\ UNCHANGED wifiGen
       \/ wifi = "rising" /\ wifi' = "up" /\ wifiGen' = wifiGen + 1
    /\ UNCHANGED <<mainVars, ready, enabled, audioTasks>>

Disconnected ==
    /\ wifi = "up" /\ wifiGen <= Drops
    /\ wifi' = "down" /\ ready' = FALSE
    /\ UNCHANGED <<mainVars, enabled, wifiGen, audioTasks>>

WifiConnected == wifi \in {"rising", "up"}

-----------------------------------------------------------------------------
(***************************************************************************)
(* audio_capture_task.                                                     *)
(***************************************************************************)
core0 == <<mainVars, ready, enabled, wifiVars>>

\* Transport waits, or sleeps between two proofs, two end markers or two
\* attempts to connect.
Blocked ==
    \/ pc \in {"wait", "retry"}
    \/ pc = "proof" /\ burst.n > 0
    \/ pc = "end" /\ t.ends > 0

ShouldCapture == WifiConnected /\ ready /\ enabled /\ gen # 0

\* A frame is begun: the top of the loop.
CaptureBegins ==
    /\ Blocked /\ capPc = "idle" /\ ShouldCapture
    /\ capPc' = "record" /\ capGen' = gen
    /\ UNCHANGED <<core0, pc, t, ring, wireVars>>

\* A frame is complete, and what may have changed while it was recorded is
\* read again, Wi-Fi excepted: a frame begun under another offer is dropped, and
\* so is one that ran into a stop.
CaptureCompletes ==
    /\ Blocked /\ capPc = "record"
    /\ IF enabled /\ ready /\ capGen = gen
       THEN capPc' = "number" /\ UNCHANGED capGen
       ELSE capPc' = "idle" /\ capGen' = 0
    /\ UNCHANGED <<core0, pc, t, ring, wireVars>>

CaptureNumbers ==
    /\ Blocked /\ capPc = "number"
    /\ capPc' = "push" /\ gap' = TRUE
    /\ UNCHANGED <<core0, pc, t, ring, capGen, burst>>

\* A full ring drops the frame; the microphone is re-armed either way.
CapturePushes ==
    /\ Blocked /\ capPc = "push"
    /\ capPc' = "idle" /\ capGen' = 0
    /\ ring' = IF Len(ring) < RingCapacity THEN Append(ring, capGen) ELSE ring
    /\ UNCHANGED <<core0, pc, t, wireVars>>

CaptureTask ==
    CaptureBegins \/ CaptureCompletes \/ CaptureNumbers \/ CapturePushes

-----------------------------------------------------------------------------
(***************************************************************************)
(* audio_transport_task.                                                   *)
(***************************************************************************)
core0ButReady == <<mainVars, enabled, wifiVars>>

\* The reset of the recording that every early way out of the loop makes.
ForgetRecording(l) == [l EXCEPT !.recording = FALSE]

TransportTop ==
    /\ pc \in {"wait", "top", "retry"}
    /\ IF WifiConnected /\ gen # 0
       THEN /\ pc' = "offer" /\ t' = [t EXCEPT !.gen = gen]
            /\ UNCHANGED <<ready, ring>>
       ELSE /\ pc' = "wait" /\ ready' = FALSE /\ ring' = <<>>
            /\ t' = ForgetRecording([t EXCEPT !.gen = gen, !.socket = 0])
    /\ UNCHANGED <<core0ButReady, captureVars, wireVars>>

\* A mutation: a new generation keeps the socket of the previous offer.
TransportOfferKeepsSocket ==
    /\ pc = "offer" /\ pc' = "connect"
    /\ LET l == [t EXCEPT !.offer = offer]
       IN  IF t.gen = t.activeGen
           THEN t' = l /\ UNCHANGED <<ready, ring>>
           ELSE /\ t' = ForgetRecording([l EXCEPT !.activeGen = t.gen, !.due = TRUE])
                /\ ready' = FALSE /\ ring' = <<>>
    /\ UNCHANGED <<core0ButReady, captureVars, wireVars>>

\* copy_offer, and the reset when the generation is a new one.
TransportOffer ==
    /\ pc = "offer" /\ pc' = "connect"
    /\ LET l == [t EXCEPT !.offer = offer]
       IN  IF t.gen = t.activeGen
           THEN t' = l /\ UNCHANGED <<ready, ring>>
           ELSE /\ t' = ForgetRecording([l EXCEPT !.activeGen = t.gen,
                            !.wifiGen = 0, !.socket = 0, !.due = TRUE])
                /\ ready' = FALSE /\ ring' = <<>>
    /\ UNCHANGED <<core0ButReady, captureVars, wireVars>>

NeedsConnection == t.socket = 0 \/ t.wifiGen # wifiGen

\* connect_audio_stream: a new socket, so a flow the Mac has not seen.  One
\* that cannot be opened is tried again after 100 ms.
TransportConnects ==
    /\ pc = "connect" /\ NeedsConnection
    /\ pc' = "ready" /\ ready' = FALSE /\ ring' = <<>>
    /\ t' = ForgetRecording([t EXCEPT !.wifiGen = wifiGen, !.due = TRUE,
                                     !.socket = t.offer])
    /\ UNCHANGED <<core0ButReady, captureVars, wireVars>>

ConnectFails ==
    /\ pc = "connect" /\ NeedsConnection
    /\ pc' = "retry" /\ t' = [t EXCEPT !.socket = 0]
    /\ UNCHANGED <<core0, ring, captureVars, wireVars>>

\* Not ready: a burst of proofs when one is due, silence in between.
TransportReady ==
    /\ pc = "ready" \/ (pc = "connect" /\ ~NeedsConnection)
    /\ IF ready THEN pc' = "pop" /\ UNCHANGED <<t, ring, burst>>
       ELSE IF t.due
       THEN /\ pc' = "proof" /\ UNCHANGED <<t, ring>>
            /\ burst' = NoProofs
       ELSE /\ pc' = "wait" /\ ring' = <<>> /\ t' = ForgetRecording(t)
            /\ UNCHANGED burst
    /\ UNCHANGED <<core0, captureVars, gap>>

\* The delays between proofs (10 ms) and between attempts to connect (100 ms)
\* are longer than the main task stays inside device_audio_apply_offer, and
\* than capture takes from the number of a frame to its push.
DelayOver == mainPc = "idle" /\ capPc \notin {"number", "push"}

\* send_session_proofs: one proof, then 10 ms.
TransportProof(lost) ==
    /\ pc = "proof" /\ burst.n < TestPackets /\ (burst.n = 0 \/ DelayOver)
    /\ LET run == IF gap THEN 1 ELSE burst.run + 1
       IN  burst' = [n |-> burst.n + 1, run |-> run, quiet |-> burst.quiet,
                     best |-> IF run > burst.best THEN run ELSE burst.best,
                     lost |-> burst.lost + lost]
    /\ gap' = FALSE
    /\ UNCHANGED <<core0, pc, t, ring, captureVars>>

TransportProved ==
    /\ pc = "proof" /\ burst.n = TestPackets /\ DelayOver
    /\ pc' = "wait" /\ ring' = <<>> /\ burst' = NoProofs
    /\ t' = ForgetRecording([t EXCEPT !.due = FALSE])
    /\ UNCHANGED <<core0, captureVars, gap>>

\* 500 ms have passed since the last burst; with a ready receiver it does
\* not matter.
ProofRetryDue ==
    /\ pc = "wait" /\ ~ready /\ ~t.due /\ t' = [t EXCEPT !.due = TRUE]
    /\ UNCHANGED <<core0, pc, ring, captureVars, wireVars>>

\* A mutation: a recording that was stopped is not ended.
TransportPopsForever ==
    /\ pc = "pop"
    /\ LET l == [t EXCEPT !.recording = @ \/ enabled]
       IN  IF l.recording /\ ring # <<>>
           THEN pc' = "send" /\ ring' = Tail(ring) /\ t' = [l EXCEPT !.frame = Head(ring)]
           ELSE pc' = "wait" /\ t' = l /\ UNCHANGED ring
    /\ UNCHANGED <<core0, captureVars, wireVars>>

\* Ready: the capture flag is read, then a frame is taken, if there is one.
TransportPops ==
    /\ pc = "pop"
    /\ LET l == [t EXCEPT !.recording = @ \/ enabled]
       IN  IF ~l.recording
           THEN pc' = "wait" /\ ring' = <<>> /\ t' = l
           ELSE IF ring # <<>>
           THEN pc' = "send" /\ ring' = Tail(ring) /\ t' = [l EXCEPT !.frame = Head(ring)]
           ELSE pc' = (IF enabled THEN "wait" ELSE "end") /\ t' = l /\ UNCHANGED ring
    /\ UNCHANGED <<core0, captureVars, wireVars>>

FrameIsCurrent(frame) == frame = t.activeGen

\* The frame popped goes out under the offer copied at the top of the loop.
SendsLive == pc = "send" /\ ready /\ FrameIsCurrent(t.frame)

TransportSends ==
    /\ pc = "send" /\ pc' = "top"
    /\ IF ready THEN ring' = ring /\ t' = [t EXCEPT !.frame = 0]
       ELSE ring' = <<>> /\ t' = ForgetRecording([t EXCEPT !.frame = 0])
    /\ UNCHANGED <<core0, captureVars, wireVars>>

\* The end markers of a recording that was stopped, a tick apart.
TransportEnds ==
    /\ pc = "end" /\ t.ends < EndPackets
    /\ t' = [t EXCEPT !.ends = @ + 1] /\ gap' = TRUE
    /\ UNCHANGED <<core0, pc, ring, captureVars, burst>>

TransportEnded ==
    /\ pc = "end" /\ t.ends = EndPackets
    /\ pc' = "wait" /\ t' = ForgetRecording([t EXCEPT !.ends = 0])
    /\ UNCHANGED <<core0, ring, captureVars, wireVars>>

\* The steps that send nothing the Mac reacts to.
TransportSilent ==
    \/ TransportTop \/ TransportOffer \/ ConnectFails
    \/ TransportReady \/ TransportProved \/ TransportPops \/ TransportEnds
    \/ TransportEnded
=============================================================================
