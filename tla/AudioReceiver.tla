---------------------------- MODULE AudioReceiver ----------------------------
(***************************************************************************)
(* One validated UDP flow from the device's transport task to the virtual  *)
(* microphone: live frames with a redundant copy of an earlier one, end    *)
(* markers, muted probes; datagrams that are lost, duplicated and          *)
(* reordered; the jitter buffer, and the drain timer that stops the        *)
(* microphone some time after the end of a recording.                      *)
(***************************************************************************)
EXTENDS JitterBuffer

CONSTANTS
    Lag,            \* kAudioRedundancyLagFrames
    EndMarkers,     \* kEndPacketCount
    MaxSequence,    \* bounds the wire sequence
    MaxAir          \* bounds the datagrams in flight

\* The window waits at least as long as a copy takes (both are 5).
ASSUME ReceiverAssumption ==
    /\ Lag \in 1..ReorderDepth /\ EndMarkers \in Nat \ {0}
    /\ MaxSequence \in Nat /\ MaxAir \in Nat \ {0}

VARIABLES
    \* the device
    sequence,   \* s_next_wire_sequence
    sending,    \* recording_interval_active
    history,    \* redundancy_history_sequences, at most Lag
    ends,       \* end markers still to be sent
    \* the network
    air,
    \* the Mac
    buf,        \* streamBuffer
    mic,        \* whether the producer has written and was not stopped
    drain,      \* the pending drain timers: with the current token, and with old ones
    driver,     \* whether the virtual microphone accepts samples
    \* what was heard
    out,        \* what this buffer has released
    arrived,    \* what it accepted
    closed,     \* both, of the last buffer that an end marker closed
    fresh       \* whether anything was released since the last end marker

senderVars   == <<sequence, sending, history, ends>>
receiverVars == <<buf, mic, drain, out, arrived, closed, fresh>>
flowVars == <<sequence, sending, history, ends, air, buf, mic, drain, driver, out,
          arrived, closed, fresh>>

LiveDatagram(n, copy) == [kind |-> "live", seq |-> n, copy |-> copy]
Marker(k, n)  == [kind |-> k, seq |-> n, copy |-> Unset]

Sequence == 0..(MaxSequence - 1)
Datagram == {LiveDatagram(n, c) : n \in Sequence, c \in Sequence \union {Unset}}
               \union {Marker(k, n) : k \in {"end", "test"}, n \in Sequence}

Frames == Seq([seq : Sequence, real : BOOLEAN])

FlowTypeOK ==
    /\ sequence \in 0..MaxSequence /\ sending \in BOOLEAN
    /\ history \in Seq(Sequence) /\ Len(history) <= Lag /\ ends \in 0..EndMarkers
    /\ air \subseteq Datagram /\ Cardinality(air) <= MaxAir
    /\ buf.next \in 0..MaxSequence \union {Unset} /\ buf.highest \in Sequence \union {Unset}
    /\ buf.pending \subseteq Sequence /\ buf.started \in BOOLEAN
    /\ buf.held \in Frames /\ Len(buf.held) < StartupFrames
    /\ mic \in BOOLEAN /\ drain \subseteq {"current", "old"} /\ driver \in BOOLEAN
    /\ out \in Frames /\ arrived \subseteq Sequence
    /\ closed.out \in Frames /\ closed.arrived \subseteq Sequence /\ fresh \in BOOLEAN

FlowInit ==
    /\ sequence = 0 /\ sending = FALSE /\ history = <<>> /\ ends = 0
    /\ air = {}
    /\ buf = EmptyBuffer /\ mic = FALSE /\ drain = {} /\ driver = TRUE
    /\ out = <<>> /\ arrived = {} /\ closed = [out |-> <<>>, arrived |-> {}] /\ fresh = FALSE

-----------------------------------------------------------------------------
(***************************************************************************)
(* The device's transport task.                                            *)
(***************************************************************************)
Send(d) ==
    /\ sequence < MaxSequence /\ sequence' = sequence + 1
    /\ Cardinality(air) < MaxAir /\ air' = air \union {d}
    /\ UNCHANGED <<receiverVars, driver>>

StartRecording ==
    /\ ~sending /\ ends = 0
    /\ sending' = TRUE
    /\ UNCHANGED <<sequence, history, ends, air, driver, receiverVars>>

Remember(n) == history' = IF Len(history) < Lag THEN Append(history, n)
                          ELSE Append(Tail(history), n)

\* A frame carries a copy of the one Lag frames before it, if that was sent.
SendFrame ==
    /\ sending
    /\ LET isCopied == Len(history) = Lag /\ history[1] + Lag = sequence IN
       Send(LiveDatagram(sequence, IF isCopied THEN history[1] ELSE Unset))
    /\ Remember(sequence)
    /\ UNCHANGED <<sending, ends>>

\* The capture ring was full: the sequence number is used up.
OverrunFrame ==
    /\ sending
    /\ sequence < MaxSequence /\ sequence' = sequence + 1
    /\ UNCHANGED <<sending, history, ends, air, driver, receiverVars>>

\* The gate closed and the capture ring is empty.
StopRecording ==
    /\ sending /\ sending' = FALSE
    /\ ends' = EndMarkers /\ history' = <<>>
    /\ UNCHANGED <<sequence, air, driver, receiverVars>>

SendEnd ==
    /\ ends > 0 /\ ends' = ends - 1
    /\ Send(Marker("end", sequence))
    /\ UNCHANGED <<sending, history>>

\* send_session_proofs on the flow that is already validated.
SendTest ==
    /\ ~sending /\ ends = 0
    /\ Send(Marker("test", sequence))
    /\ UNCHANGED <<sending, history, ends>>

-----------------------------------------------------------------------------
(***************************************************************************)
(* The Mac.                                                                *)
(***************************************************************************)
Cancelled(timers) == IF timers = {} THEN {} ELSE {"old"}

\* A mutation: a batch does not cancel the drain.
ReleasedUncancelled(batch) ==
    /\ out' = out \o batch
    /\ fresh' = (fresh \/ batch # <<>>)
    /\ mic' = (mic \/ (batch # <<>> /\ driver))
    /\ UNCHANGED drain

\* What the microphone, its timer and the history are after a batch of frames.
Released(batch) ==
    /\ out' = out \o batch
    /\ fresh' = (fresh \/ batch # <<>>)
    /\ mic' = (mic \/ (batch # <<>> /\ driver))
    /\ drain' = IF batch = <<>> THEN drain ELSE Cancelled(drain)

Accepted(b, n) == IF Late(b, n) THEN {} ELSE {n}

\* consume and consumeValidated of a live datagram: the copy comes first.
ConsumeLive(d) ==
    LET copied == IF d.copy = Unset THEN Result(buf, <<>>) ELSE Push(buf, d.copy)
        pushed == Push(copied.buf, d.seq)
    IN  /\ buf' = pushed.buf
        /\ Released(copied.batch \o pushed.batch)
        /\ arrived' = arrived \union Accepted(copied.buf, d.seq)
                        \union (IF d.copy = Unset THEN {} ELSE Accepted(buf, d.copy))
        /\ UNCHANGED closed

ResetPipeline == buf' = EmptyBuffer /\ out' = <<>> /\ arrived' = {}

\* A mutation: the end of a recording stops the microphone in every later one.
ConsumeEndKeepingTimers ==
    /\ closed' = [out |-> out \o Finish(buf), arrived |-> arrived]
    /\ fresh' = FALSE
    /\ IF driver
       THEN /\ mic' = (mic \/ Finish(buf) # <<>>)
            /\ UNCHANGED drain
       ELSE mic' = FALSE /\ UNCHANGED drain
    /\ ResetPipeline

\* The tail is written, and the microphone stopped when it has been played; at
\* once if its lease cannot be renewed.
ConsumeEnd ==
    /\ closed' = [out |-> out \o Finish(buf), arrived |-> arrived]
    /\ fresh' = FALSE
    /\ IF driver
       THEN /\ mic' = (mic \/ Finish(buf) # <<>>)
            /\ drain' = Cancelled(drain) \union {"current"}
       ELSE mic' = FALSE /\ drain' = Cancelled(drain)
    /\ ResetPipeline

ConsumeTest ==
    /\ mic' = FALSE /\ drain' = Cancelled(drain)
    /\ ResetPipeline
    /\ UNCHANGED <<closed, fresh>>

\* A datagram may be delivered any number of times, in any order.
Deliver(d) ==
    /\ air' \in {air, air \ {d}}
    /\ \/ d.kind = "live" /\ ConsumeLive(d)
       \/ d.kind = "end" /\ ConsumeEnd
       \/ d.kind = "test" /\ ConsumeTest
    /\ UNCHANGED <<senderVars, driver>>

Lose(d) ==
    /\ air' = air \ {d}
    /\ UNCHANGED <<senderVars, receiverVars, driver>>

\* A drain timer: it does nothing unless its token is the current one.
DrainFires ==
    /\ "current" \in drain
    /\ drain' = drain \ {"current"} /\ mic' = FALSE
    /\ UNCHANGED <<senderVars, air, driver, buf, out, arrived, closed, fresh>>

OldDrainFires ==
    /\ "old" \in drain
    /\ drain' = drain \ {"old"}
    /\ UNCHANGED <<senderVars, air, driver, buf, mic, out, arrived, closed, fresh>>

\* The plug-in is unloaded and comes back.
DriverChanges ==
    /\ driver' = ~driver
    /\ UNCHANGED <<senderVars, air, receiverVars>>

Sender == StartRecording \/ SendFrame \/ OverrunFrame \/ StopRecording \/ SendEnd \/ SendTest

Network == \E d \in air : Deliver(d) \/ Lose(d)

FlowNext == Sender \/ Network \/ DrainFires \/ OldDrainFires \/ DriverChanges

FlowSpec == FlowInit /\ [][FlowNext]_flowVars

\* A dispatch queue fires its timers.
FairFlowSpec == FlowSpec /\ WF_flowVars(DrainFires)

-----------------------------------------------------------------------------
(***************************************************************************)
(* Properties.                                                             *)
(***************************************************************************)
RealFrames(frames) == {frames[i].seq : i \in {k \in DOMAIN frames : frames[k].real}}

\* A frame that reached the buffer before its deadline, by itself or as a copy,
\* is waiting or was released as it is: no concealment and no jump over a long
\* gap ever takes its place.
NoFrameInTimeIsLost ==
    arrived = buf.pending \union RealFrames(buf.held) \union RealFrames(out)

\* What one buffer releases is in order and without a hole that could have been
\* concealed, and no frame is released twice.
PlayoutHasNoHoles ==
    LET all == out \o buf.held IN
    \A i \in 1..(Len(all) - 1) :
        LET step == all[i + 1].seq - all[i].seq IN step = 1 \/ step > ConcealedGap + 1

\* The buffer waits for the redundant copy: a frame is concealed only when the
\* datagram with its copy was lost or overtaken.
ConcealedAfterCopy ==
    \A f \in ToSet(out \o buf.held) : f.real \/ buf.highest >= f.seq + Lag

\* Copies and reordering never make the buffer hold more than the window.
WindowIsBounded ==
    /\ buf.next # Unset => buf.highest - buf.next < ReorderDepth
    /\ Cardinality(buf.pending) <= ReorderDepth

\* Between the network and the driver: bounded, in order, without a hole, and
\* with nothing made up that a copy could have supplied; the types.
BufferInvariant == FlowTypeOK /\ WindowIsBounded /\ ConcealedAfterCopy /\ PlayoutHasNoHoles

\* The end marker releases all that the buffer accepted, the reservoir included.
EndReleasesAll == closed.arrived = RealFrames(closed.out)

\* Once a recording is heard, only a marker of the device stops the microphone:
\* no drain timer of an earlier recording does.
DrainSparesNewRecording == [][mic /\ ~mic' /\ fresh => out' # out]_flowVars

\* After an end marker the microphone is stopped, unless it has frames to play.
MicrophoneIsReleased == mic /\ ~fresh ~> ~mic \/ fresh
=============================================================================
