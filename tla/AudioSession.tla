---------------------------- MODULE AudioSession ----------------------------
(***************************************************************************)
(* An audio session from end to end: the device of AudioTransport, the     *)
(* UDP network, and the Mac, which offers a session, validates the flow    *)
(* its proofs arrive on, answers audio_ready over BLE and gives up a       *)
(* session that does not come about.                                       *)
(*                                                                         *)
(* A session's port is its own, because the Mac opens a new listener for   *)
(* each.  BLE writes are acknowledged and arrive in order, but the device  *)
(* may drop or refuse what they carry, without a word; a datagram may be   *)
(* late or lost, and a loss shows in the next sequence number.  The Mac's  *)
(* timers (3 s for a candidate, 5 s and 15 s for a session) may run out at *)
(* any moment after they were started.                                     *)
(***************************************************************************)
EXTENDS AudioTransport

VARIABLES
    sid,            \* AudioReceiverController.sessionID
    offered,        \* lastOfferedSessionID = sessionID
    candidate,      \* how many candidateFrames the device's socket has in a row
    active,         \* is it the flow of activeConnectionID?
    accepted,       \* metrics.acceptedPackets > 0
    proven,         \* history: the sessions the Mac has validated a flow of
    failed          \* history: a command of this session was dropped or refused

macVars == <<sid, offered, candidate, active, accepted, proven, failed>>
vars    == <<deviceVars, macVars>>

TypeOK ==
    /\ DeviceTypeOK
    /\ sid \in Session /\ offered \in BOOLEAN /\ accepted \in BOOLEAN
    /\ candidate \in 0..2 /\ active \in BOOLEAN /\ proven \in SUBSET Session
    /\ failed \in BOOLEAN

Init ==
    /\ DeviceInit
    /\ sid = 1 /\ offered = FALSE /\ candidate = 0 /\ active = FALSE
    /\ accepted = FALSE /\ proven = {} /\ failed = FALSE

\* A new socket is a new flow: neither active nor a candidate yet.
Connect ==
    /\ TransportConnects
    /\ candidate' = 0 /\ active' = FALSE
    /\ UNCHANGED <<cmds, sid, offered, accepted, proven, failed>>

\* validateCandidate: three proofs in a row make a flow the active one.
Run == IF gap THEN 1 ELSE candidate + 1

\* enqueue_control_command: a command reaches the main task, or is dropped
\* because the queue is full of those that configure Wi-Fi, shortcuts and updates.
Sends(command) ==
    \/ cmds' = Append(cmds, command) /\ UNCHANGED failed
    \/ failed' = TRUE /\ UNCHANGED cmds

ProofArrives ==
    IF active THEN UNCHANGED <<candidate, active, proven, cmds, failed>>
    ELSE IF Run < 3
    THEN candidate' = Run /\ UNCHANGED <<active, proven, cmds, failed>>
    ELSE /\ candidate' = 0 /\ active' = TRUE /\ proven' = proven \cup {sid}
         /\ Sends([kind |-> "ready", sid |-> sid])

\* A datagram to the port of an earlier session finds no listener.  A loss
\* shows in the number of the next proof; a candidate that runs into its 3 s
\* timeout starts anew just the same and is counted as a loss.
Proof ==
    /\ \/ TransportProof(0) /\ t.socket = sid /\ ProofArrives
       \/ TransportProof(0) /\ t.socket # sid
          /\ UNCHANGED <<candidate, active, proven, cmds, failed>>
       \/ /\ burst.lost < Losses /\ TransportProof(1)
          /\ candidate' = 0 /\ UNCHANGED <<active, proven, cmds, failed>>
    /\ UNCHANGED <<sid, offered, accepted>>

\* Live audio on a flow that is not the active one ends its candidacy.
Live ==
    /\ TransportSends
    /\ IF SendsLive /\ t.socket = sid /\ ~active
       THEN candidate' = 0 ELSE UNCHANGED candidate
    /\ accepted' = (accepted \/ (SendsLive /\ t.socket = sid /\ active))
    /\ UNCHANGED <<cmds, sid, offered, active, proven, failed>>

-----------------------------------------------------------------------------
(***************************************************************************)
(* offerAudioToAlreadyConnectedDeviceIfNeeded and                          *)
(* recoverAudioSessionAfterDeviceRestartIfNeeded.                          *)
(***************************************************************************)
ShouldOfferSession == WifiConnected /\ ~accepted

OfferSession ==
    /\ ShouldOfferSession /\ ~offered
    /\ offered' = TRUE /\ Sends([kind |-> "offer", sid |-> sid])
    /\ UNCHANGED <<mainVars, ready, enabled, wifiVars, audioTasks, sid, candidate,
                   active, accepted, proven>>

\* audio.start: a new session and a new listener; all flows are cancelled.
StartReceiver ==
    /\ sid < Sessions /\ sid' = sid + 1
    /\ offered' = FALSE /\ candidate' = 0 /\ active' = FALSE /\ accepted' = FALSE
    /\ failed' = FALSE
    /\ UNCHANGED <<deviceVars, proven>>

RotateFailedOffer == ShouldOfferSession /\ offered /\ StartReceiver

\* The device has streamed and is no longer ready.
RotateNotReady == accepted /\ ~ready /\ WifiConnected /\ StartReceiver

Alone(step) == step /\ UNCHANGED macVars
Silent(step) == step /\ UNCHANGED <<cmds, macVars>>

\* The Mac does not learn that the device refused a command.
Refused ==
    /\ MainRefuses /\ failed' = (failed \/ Head(cmds).sid = sid)
    /\ UNCHANGED <<sid, offered, candidate, active, accepted, proven>>

MainTaskSteps == Alone(MainTask) \/ Refused

Device ==
    \/ MainTaskSteps
    \/ Silent(SetCaptureEnabled) \/ Silent(GotIp) \/ Silent(Disconnected)
    \/ Silent(CaptureTask) \/ Silent(TransportSilent) \/ Silent(ProofRetryDue)
    \/ Connect \/ Proof \/ Live

Mac == OfferSession \/ RotateFailedOffer \/ RotateNotReady

Next == Device \/ Mac

Spec == Init /\ [][Next]_vars

(***************************************************************************)
(* Fairness: FreeRTOS runs every task that is ready, the Mac's queues are   *)
(* served and its polling offers; a socket can be opened in the end.       *)
(***************************************************************************)
FairSpec ==
    /\ Spec
    /\ WF_vars(MainTaskSteps)
    /\ WF_vars(Silent(GotIp /\ wifi = "rising"))
    /\ WF_vars(Silent(CaptureTask))
    /\ WF_vars(Silent(TransportSilent) \/ Proof \/ Live)
    /\ SF_vars(Connect)
    /\ SF_vars(Silent(ProofRetryDue))
    /\ WF_vars(OfferSession)

-----------------------------------------------------------------------------
\* The receiver is ready only for a session whose proofs the Mac has seen,
\* whatever is queued, late or in the middle of an offer.
ReadyMeansProven == ready => offer \in proven

\* Sound is never sent under a session it was not captured for.
LiveUnderOwnSession == SendsLive => t.offer = t.frame

\* Every burst the receiver did not interrupt holds three proofs in a row,
\* also when capture took one of the numbers.
BurstIsEnough == pc = "proof" /\ burst.n = TestPackets /\ burst.quiet => burst.best >= 3

\* A handshake leaves nothing to chance: bursts suffice, and what they prove is
\* what the device takes to be ready; the types.
SessionInvariant == TypeOK /\ BurstIsEnough /\ ReadyMeansProven

\* A recording that was stopped for good is closed.
RecordingCloses == <>[]~enabled => <>[]~t.recording

\* Once rotations have ended (no step changes sid), Wi-Fi stays up, and no command
\* of the session in force was dropped or refused, the device gets that session's
\* receiver for good, whatever became of the sessions before.  Rotations need not
\* end: a device that stays muted is offered a new session every 15 s.
HandshakeCompletes ==
    <>[][FALSE]_sid /\ <>[](wifi = "up" /\ ~failed) => <>[](ready /\ offer = sid)
=============================================================================
