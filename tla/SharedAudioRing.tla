--------------------------- MODULE SharedAudioRing ---------------------------
(***************************************************************************)
(* The buffer that carries the microphone's samples from the Mac app (the  *)
(* Producer) to the audio driver (the Consumer, in coreaudiod): a ring in  *)
(* shared memory, two cursors that only their owner writes, an active flag *)
(* and a lease.  The driver's broker owns the memory and withdraws the     *)
(* lease of a producer whose connection ends.                              *)
(*                                                                         *)
(* One step is one access to shared memory.  A sample is its index in the  *)
(* stream, so a slot shows which sample it holds.                          *)
(***************************************************************************)
EXTENDS Integers, Sequences

CONSTANTS
    Capacity,   \* kSharedMemoryCapacityFrames
    MaxBacklog, \* kMaximumRealtimeBacklogFrames
    Catchup,    \* kRealtimeCatchupFrames
    Batch,      \* the largest number of samples of a write
    Frames,     \* the number of frames of a render call
    Lease,      \* kProducerLeaseMilliseconds, in ticks
    MaxIndex    \* bounds the stream

ASSUME RingAssumption ==
    /\ Capacity \in Nat /\ MaxBacklog \in Nat /\ Catchup \in Nat
    /\ 1 <= Catchup /\ Catchup <= MaxBacklog /\ MaxBacklog < Capacity
    /\ Batch \in 1..Capacity /\ Frames \in 1..Capacity
    /\ Lease \in Nat \ {0} /\ MaxIndex \in Nat

VARIABLES
    slot,       \* sample_bits
    write,      \* write_index
    read,       \* read_index
    active,     \* producer_active
    lease,      \* the time left to lease_deadline_host_time
    ppc,        \* the producer's next access
    batch,      \* the size of its write,
    stored,     \* and how much of it is stored
    rpc,        \* the consumer's next access
    rWrite,     \* what it loaded from write,
    rRead,      \* where it reads from,
    rCount,     \* how many samples,
    block,      \* and what it copied
    stopAt      \* history: the length of the stream at the last stop

sharedVars   == <<slot, write, read, active, lease>>
producerVars == <<ppc, batch, stored>>
consumerVars == <<rpc, rWrite, rRead, rCount, block>>
vars == <<slot, write, read, active, lease, ppc, batch, stored, rpc, rWrite,
          rRead, rCount, block, stopAt>>

Empty == -1

TypeOK ==
    /\ slot \in [0..Capacity-1 -> {Empty} \union 0..MaxIndex]
    /\ write \in 0..MaxIndex /\ read \in 0..MaxIndex
    /\ active \in BOOLEAN /\ lease \in 0..Lease
    /\ ppc \in {"closed", "idle", "store", "publish", "lease", "activate"}
    /\ batch \in 0..Batch /\ stored \in 0..Batch
    /\ rpc \in {"detached", "attach", "idle", "lease", "load", "copy", "check"}
    /\ rWrite \in 0..MaxIndex /\ rRead \in 0..MaxIndex
    /\ rCount \in 0..Frames
    /\ block \in Seq({Empty} \union 0..MaxIndex) /\ Len(block) <= rCount
    /\ stopAt \in 0..MaxIndex

Init ==
    /\ slot = [i \in 0..Capacity-1 |-> Empty]
    /\ write = 0 /\ read = 0 /\ active = FALSE /\ lease = 0
    /\ ppc = "closed" /\ batch = 0 /\ stored = 0
    /\ rpc = "detached" /\ rWrite = 0 /\ rRead = 0 /\ rCount = 0
    /\ block = <<>> /\ stopAt = 0

-----------------------------------------------------------------------------
(***************************************************************************)
(* The producer.                                                           *)
(***************************************************************************)

\* Producer::Stop and the broker's Deactivate.
Inactive == active' = FALSE /\ lease' = 0 /\ stopAt' = write

\* A mutation: opening the buffer also clears the writer's cursor.
OpenZeroed ==
    /\ ppc = "closed" /\ ppc' = "idle"
    /\ Inactive /\ write' = 0
    /\ UNCHANGED <<slot, read, batch, stored, consumerVars>>

\* OpenBroker: whatever the last producer left is stopped, the cursors stay.
Open ==
    /\ ppc = "closed" /\ ppc' = "idle"
    /\ Inactive
    /\ UNCHANGED <<slot, write, read, batch, stored, consumerVars>>

BeginWrite(n) ==
    /\ ppc = "idle" /\ ppc' = "store"
    /\ write + n <= MaxIndex
    /\ batch' = n /\ stored' = 0
    /\ UNCHANGED <<sharedVars, consumerVars, stopAt>>

StoreSample ==
    /\ ppc = "store"
    /\ slot' = [slot EXCEPT ![(write + stored) % Capacity] = write + stored]
    /\ stored' = stored + 1
    /\ ppc' = IF stored + 1 = batch THEN "publish" ELSE "store"
    /\ UNCHANGED <<write, read, active, lease, batch, consumerVars, stopAt>>

Publish ==
    /\ ppc = "publish" /\ ppc' = "lease"
    /\ write' = write + batch
    /\ UNCHANGED <<slot, read, active, lease, batch, stored, consumerVars,
                   stopAt>>

RefreshLease ==
    /\ ppc = "lease" /\ ppc' = "activate"
    /\ lease' = Lease
    /\ UNCHANGED <<slot, write, read, active, batch, stored, consumerVars,
                   stopAt>>

Activate ==
    /\ ppc = "activate" /\ ppc' = "idle"
    /\ active' = TRUE
    /\ UNCHANGED <<slot, write, read, lease, batch, stored, consumerVars,
                   stopAt>>

\* The drain at the end of a recording keeps the lease and writes nothing.
Drain ==
    /\ ppc = "idle" /\ lease' = Lease
    /\ UNCHANGED <<slot, write, read, active, producerVars, consumerVars,
                   stopAt>>

Stop ==
    /\ ppc = "idle"
    /\ Inactive
    /\ UNCHANGED <<slot, write, read, producerVars, consumerVars>>

\* The app closes or dies between any two accesses; the broker notices later.
Crash ==
    /\ ppc # "closed" /\ ppc' = "closed"
    /\ UNCHANGED <<sharedVars, batch, stored, consumerVars, stopAt>>

\* The connection has ended, or its user is no longer the one at the console.
BrokerDeactivates ==
    /\ active
    /\ Inactive
    /\ UNCHANGED <<slot, write, read, producerVars, consumerVars>>

Producer ==
    \/ Open \/ (\E n \in 1..Batch : BeginWrite(n)) \/ StoreSample \/ Publish
    \/ RefreshLease \/ Activate \/ Drain \/ Stop \/ Crash
    \/ BrokerDeactivates

-----------------------------------------------------------------------------
(***************************************************************************)
(* The consumer.                                                           *)
(***************************************************************************)
Larger(a, b)  == IF a > b THEN a ELSE b
Smaller(a, b) == IF a < b THEN a ELSE b

\* Where a reader that has fallen behind rejoins a stream of w samples.
LiveRead(w) == IF w > Catchup THEN w - Catchup ELSE 0

Goto(from, to) == rpc = from /\ rpc' = to

AttachLoadWrite ==
    /\ Goto("detached", "attach")
    /\ rWrite' = write
    /\ UNCHANGED <<sharedVars, producerVars, rRead, rCount, block, stopAt>>

\* A mutation: the pre-roll is taken whatever was already consumed.
AttachJoinBehind ==
    /\ Goto("attach", "idle")
    /\ read' = IF active /\ lease > 0 THEN LiveRead(rWrite) ELSE rWrite
    /\ UNCHANGED <<slot, write, active, lease, producerVars, rWrite, rRead,
                   rCount, block, stopAt>>

\* AttachDescriptor: a bounded pre-roll of a live producer, and nothing of an
\* inactive one.
AttachJoin ==
    /\ Goto("attach", "idle")
    /\ read' = IF active /\ lease > 0
               THEN Smaller(rWrite, Larger(read, LiveRead(rWrite)))
               ELSE rWrite
    /\ UNCHANGED <<slot, write, active, lease, producerVars, rWrite, rRead,
                   rCount, block, stopAt>>

Detach ==
    /\ Goto("idle", "detached")
    /\ UNCHANGED <<sharedVars, producerVars, rWrite, rRead, rCount, block,
                   stopAt>>

CheckActive ==
    /\ Goto("idle", "lease")
    /\ active
    /\ UNCHANGED <<sharedVars, producerVars, rWrite, rRead, rCount, block, stopAt>>

CheckLease ==
    /\ rpc = "lease" /\ rpc' = IF lease > 0 THEN "load" ELSE "idle"
    /\ UNCHANGED <<sharedVars, producerVars, rWrite, rRead, rCount, block,
                   stopAt>>

\* The load of write_index; read_index is the consumer's own, and is moved
\* up at once when the backlog is too long.
LoadWrite ==
    /\ rpc = "load"
    /\ rWrite' = write
    /\ rRead' = IF write - read > MaxBacklog THEN Larger(read, LiveRead(write))
                                             ELSE read
    /\ read' = rRead'
    /\ rCount' = Smaller(write - rRead', Frames)
    /\ block' = <<>>
    /\ rpc' = IF rCount' = 0 THEN "idle" ELSE "copy"
    /\ UNCHANGED <<slot, write, active, lease, producerVars, stopAt>>

CopySample ==
    /\ rpc = "copy"
    /\ block' = Append(block, slot[(rRead + Len(block)) % Capacity])
    /\ rpc' = IF Len(block) + 1 = rCount THEN "check" ELSE "copy"
    /\ UNCHANGED <<sharedVars, producerVars, rWrite, rRead, rCount, stopAt>>

\* A mutation: the wrap is noticed one sample too late.
WrappedLate == write - rRead > Capacity + 1

\* Has the producer wrapped into the block while it was copied?
Wrapped == write - rRead > Capacity

\* A mutation: the reader's cursor is only stored when the block is discarded.
CommitForgotten ==
    /\ Goto("check", "idle")
    /\ read' = IF Wrapped THEN LiveRead(write) ELSE read
    /\ UNCHANGED <<slot, write, active, lease, producerVars, rWrite, rRead,
                   rCount, block, stopAt>>

Commit ==
    /\ Goto("check", "idle")
    /\ read' = IF Wrapped THEN LiveRead(write) ELSE rRead + rCount
    /\ UNCHANGED <<slot, write, active, lease, producerVars, rWrite, rRead,
                   rCount, block, stopAt>>

Render == CheckActive \/ CheckLease \/ LoadWrite \/ CopySample \/ Commit

Consumer == AttachLoadWrite \/ AttachJoin \/ Detach \/ Render

-----------------------------------------------------------------------------
Tick ==
    /\ lease > 0 /\ lease' = lease - 1
    /\ UNCHANGED <<slot, write, read, active, producerVars, consumerVars, stopAt>>

Next == Producer \/ Consumer \/ Tick

Spec == Init /\ [][Next]_vars

\* Core Audio calls the driver again and again while its device runs.
FairSpec == Spec /\ WF_vars(AttachJoin) /\ WF_vars(Render)

-----------------------------------------------------------------------------
(***************************************************************************)
(* Properties.                                                             *)
(***************************************************************************)

\* The cursors are written by two processes without a lock, and jump: at the
\* attach, at the catch-up and when a wrap is noticed.  None of the jumps
\* takes the reader past the writer.
CursorsOrdered ==
    /\ read <= write
    /\ rpc \in {"copy", "check"} => rRead + rCount <= write

Stream == INSTANCE LossyStream WITH appended <- write, position <- read

\* Nothing is played twice and nothing is played early: the reader only ever
\* moves forward, whatever crashes, stalls, wraps and attaches happen.
ImplementsStream == Stream!Spec

\* A block that passes the check after the copy holds the samples of its
\* place in the stream, except for slots the producer is overwriting with a
\* batch it has not published yet.
AcceptedSamplesAreOurs ==
    rpc = "check" /\ ~Wrapped =>
        \A j \in DOMAIN block :
            \/ block[j] = rRead + j - 1
            \/ block[j] = rRead + j - 1 + Capacity /\ block[j] >= write

\* While a producer keeps its lease and pauses, the reader reaches the end of
\* the stream: no discarded block and no catch-up leaves it behind for ever.
ReaderKeepsUp ==
    <>[](active /\ lease > 0 /\ rpc # "detached") => <>[](read = write)

\* "The callback was stalled long enough for the producer to wrap while we
\* copied.  Discard the ambiguous block": every accepted block holds the
\* samples of its place in the stream.
AmbiguousBlocksDiscarded ==
    rpc = "check" /\ ~Wrapped => \A j \in DOMAIN block : block[j] = rRead + j - 1

\* "Do not replay buffered data from an inactive or expired producer": a
\* recorder that attaches starts no earlier than where the stream was last
\* stopped.
StoppedAudioNotReplayed == [][AttachJoin => read' >= stopAt]_vars
=============================================================================
