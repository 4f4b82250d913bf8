----------------------- MODULE SharedAudioRingProofs -----------------------
(***************************************************************************)
(* What SharedAudioRing guarantees for every capacity, backlog, batch and  *)
(* render size: the cursors stay ordered, the buffer implements the lossy    *)
(* stream, and a block that is played holds the samples of its place.  The  *)
(* first two are about the cursors alone; the last adds what a slot holds.  *)
(***************************************************************************)
EXTENDS SharedAudioRing, TLAPS

CursorTypes ==
    /\ write \in Nat /\ read \in Nat
    /\ rWrite \in Nat /\ rRead \in Nat /\ rCount \in Nat /\ batch \in Nat

\* While it attaches, the consumer works on a cursor it loaded earlier.
AttachIsStale == rpc = "attach" => read <= rWrite /\ rWrite <= write

\* While it renders, its copy of its own cursor is the cursor.
RenderOwnsRead ==
    rpc \in {"copy", "check"} => read = rRead /\ rCount > 0 /\ rRead + rCount <= write

\* A write that is under way is not empty.
BatchNotEmpty == ppc \in {"store", "publish"} => batch > 0

CursorInv ==
    /\ CursorTypes
    /\ read <= write
    /\ AttachIsStale
    /\ RenderOwnsRead
    /\ BatchNotEmpty

\* Where a reader rejoins is a place in the stream.
LEMMA LiveReadBound ==
    ASSUME NEW w \in Nat
    PROVE  LiveRead(w) \in Nat /\ LiveRead(w) <= w
  BY RingAssumption DEF LiveRead

LEMMA SmallerBound ==
    ASSUME NEW a \in Nat, NEW b \in Nat
    PROVE  Smaller(a, b) \in Nat /\ Smaller(a, b) <= a
  BY DEF Smaller

LEMMA BacklogBound ==
    ASSUME NEW a \in Nat, NEW b \in Nat, b <= a
    PROVE  a - b \in Nat /\ \A c \in Nat : c <= a - b => b + c <= a
  OBVIOUS

LEMMA CursorInit == Init => CursorInv
  BY DEF Init, CursorInv, CursorTypes, AttachIsStale, RenderOwnsRead, BatchNotEmpty

\* Attaching never moves the cursor back, nor past the writer.
LEMMA AttachJoinBound ==
    ASSUME CursorInv, AttachJoin
    PROVE  read' \in Nat /\ read <= read' /\ read' <= write
  <1>1. rWrite \in Nat /\ read \in Nat /\ write \in Nat /\ read <= rWrite /\ rWrite <= write
    BY DEF CursorInv, CursorTypes, AttachIsStale, AttachJoin, Goto
  <1>2. LiveRead(rWrite) \in Nat /\ LiveRead(rWrite) <= rWrite
    BY <1>1, LiveReadBound
  <1>3. read' = rWrite \/ read' = Smaller(rWrite, Larger(read, LiveRead(rWrite)))
    BY DEF AttachJoin
  <1> QED
    BY <1>1, <1>2, <1>3 DEF Smaller, Larger

\* Loading the writer's cursor moves the reader forward, within the stream.
LEMMA LoadWriteBound ==
    ASSUME CursorInv, LoadWrite
    PROVE  /\ read' \in Nat /\ read <= read' /\ read' <= write
           /\ rRead' = read' /\ rWrite' = write /\ write' = write
           /\ rCount' \in Nat /\ rRead' + rCount' <= write
           /\ rpc' \in {"idle", "copy"} /\ (rpc' = "copy" => rCount' > 0)
  <1>1. read \in Nat /\ write \in Nat /\ read <= write
    BY DEF CursorInv, CursorTypes
  <1>2. LiveRead(write) \in Nat /\ LiveRead(write) <= write
    BY <1>1, LiveReadBound
  <1>3. rRead' \in Nat /\ read <= rRead' /\ rRead' <= write
    <2>1. rRead' = read \/ rRead' = Larger(read, LiveRead(write))
      BY DEF LoadWrite
    <2> QED
      BY <1>1, <1>2, <2>1 DEF Larger
  <1>4. rCount' = Smaller(write - rRead', Frames)
    BY DEF LoadWrite
  <1>5. write - rRead' \in Nat
    BY <1>1, <1>3, BacklogBound
  <1>7. Frames \in Nat
    BY RingAssumption
  <1>6. rCount' \in Nat /\ rCount' <= write - rRead'
    BY <1>4, <1>5, <1>7, SmallerBound
  <1>8. rRead' + rCount' <= write
    BY <1>1, <1>3, <1>6, BacklogBound
  <1> QED
    BY <1>1, <1>3, <1>6, <1>8 DEF LoadWrite

\* A block that is committed or discarded moves the reader forward.
LEMMA CommitBound ==
    ASSUME CursorInv, Commit
    PROVE  read' \in Nat /\ read <= read' /\ read' <= write
  <1>1. /\ read \in Nat /\ write \in Nat /\ rRead \in Nat /\ rCount \in Nat
        /\ read = rRead /\ rRead + rCount <= write
    BY DEF CursorInv, CursorTypes, RenderOwnsRead, Commit, Goto
  <1>2. CASE Wrapped
    <2>1. read' = LiveRead(write) /\ write - rRead > Capacity
      BY <1>2 DEF Commit, Wrapped
    <2>2. Capacity \in Nat /\ Catchup \in Nat /\ Catchup < Capacity
      BY RingAssumption
    <2> QED
      BY <1>1, <2>1, <2>2 DEF LiveRead
  <1>3. CASE ~Wrapped
    BY <1>1, <1>3 DEF Commit
  <1> QED
    BY <1>2, <1>3

LEMMA CursorStep == CursorInv /\ [Next]_vars => CursorInv'
  <1> SUFFICES ASSUME CursorInv, [Next]_vars PROVE CursorInv'
    OBVIOUS
  <1> USE DEF CursorInv, CursorTypes, AttachIsStale, RenderOwnsRead, BatchNotEmpty
  <1>1. CASE UNCHANGED vars
    BY <1>1 DEF vars
  <1>2. ASSUME Producer PROVE CursorInv'
    <2>1. CASE Open
      BY <2>1 DEF Open, Inactive, consumerVars
    <2>2. ASSUME NEW n \in 1..Batch, BeginWrite(n) PROVE CursorInv'
      <3>1. n \in Nat /\ n > 0
        BY RingAssumption
      <3> QED
        BY <2>2, <3>1 DEF BeginWrite, sharedVars, consumerVars
    <2>3. CASE StoreSample
      BY <2>3 DEF StoreSample, consumerVars
    <2>4. CASE Publish
      BY <2>4 DEF Publish, consumerVars
    <2>5. CASE RefreshLease
      BY <2>5 DEF RefreshLease, consumerVars
    <2>6. CASE Activate
      BY <2>6 DEF Activate, consumerVars
    <2>7. CASE Drain
      BY <2>7 DEF Drain, producerVars, consumerVars
    <2>8. CASE Stop
      BY <2>8 DEF Stop, Inactive, producerVars, consumerVars
    <2>9. CASE Crash
      BY <2>9 DEF Crash, sharedVars, consumerVars
    <2>10. CASE BrokerDeactivates
      BY <2>10 DEF BrokerDeactivates, Inactive, producerVars, consumerVars
    <2> QED
      BY <1>2, <2>1, <2>2, <2>3, <2>4, <2>5, <2>6, <2>7, <2>8, <2>9, <2>10 DEF Producer
  <1>3. ASSUME Consumer PROVE CursorInv'
    <2>1. CASE AttachLoadWrite
      BY <2>1 DEF AttachLoadWrite, Goto, sharedVars, producerVars
    <2>2. CASE AttachJoin
      BY <2>2, AttachJoinBound DEF AttachJoin, Goto, producerVars
    <2>3. CASE Detach
      BY <2>3 DEF Detach, Goto, sharedVars, producerVars
    <2>4. CASE CheckActive
      BY <2>4 DEF CheckActive, Goto, sharedVars, producerVars
    <2>5. CASE CheckLease
      BY <2>5 DEF CheckLease, sharedVars, producerVars
    <2>6. CASE LoadWrite
      <3>1. UNCHANGED producerVars
        BY <2>6 DEF LoadWrite
      <3> QED
        BY <2>6, <3>1, LoadWriteBound DEF producerVars
    <2>7. CASE CopySample
      BY <2>7 DEF CopySample, sharedVars, producerVars
    <2>8. CASE Commit
      BY <2>8, CommitBound DEF Commit, Goto, producerVars
    <2> QED
      BY <1>3, <2>1, <2>2, <2>3, <2>4, <2>5, <2>6, <2>7, <2>8 DEF Consumer, Render
  <1>4. CASE Tick
    BY <1>4 DEF Tick, producerVars, consumerVars
  <1> QED
    BY <1>1, <1>2, <1>3, <1>4 DEF Next

\* The cursors are well formed and ordered in every reachable state, with
\* what each process remembers of them between two of its accesses.
THEOREM CursorInvariance == Spec => []CursorInv
  BY CursorInit, CursorStep, PTL DEF Spec

\* None of the consumer's jumps takes it past the producer, at the attach, at
\* the catch-up and when it finds that the producer has wrapped.
THEOREM CursorsAlwaysOrdered == Spec => []CursorsOrdered
  <1>1. CursorInv => CursorsOrdered
    BY DEF CursorInv, CursorsOrdered, RenderOwnsRead
  <1> QED
    BY <1>1, CursorInvariance, PTL

\* Every step of the two processes appends to the stream, advances its
\* reader, or leaves both cursors alone.
LEMMA StepIsStreamStep ==
    ASSUME CursorInv, [Next]_vars
    PROVE  [Stream!Next]_<<write, read>>
  <1>1. CASE Publish
    BY <1>1 DEF CursorInv, CursorTypes, BatchNotEmpty, Publish, Stream!Next, Stream!Append
  <1>2. ASSUME read' \in Nat, read <= read', read' <= write, write' = write
        PROVE  [Stream!Next]_<<write, read>>
    BY <1>2 DEF CursorInv, CursorTypes, Stream!Next, Stream!Advance
  <1>3. CASE AttachJoin
    BY <1>2, <1>3, AttachJoinBound DEF AttachJoin
  <1>4. CASE LoadWrite
    BY <1>2, <1>4, LoadWriteBound
  <1>5. CASE Commit
    BY <1>2, <1>5, CommitBound DEF Commit
  <1>6. ASSUME [Next]_vars, ~Publish, ~AttachJoin, ~LoadWrite, ~Commit
        PROVE  UNCHANGED <<write, read>>
    BY <1>6 DEF Next, Producer, Consumer, Render, Open, BeginWrite, StoreSample,
       RefreshLease, Activate, Drain, Stop, Crash, BrokerDeactivates, Inactive,
       AttachLoadWrite, Detach, CheckActive, CheckLease, CopySample, Tick,
       sharedVars, vars
  <1> QED
    BY <1>1, <1>3, <1>4, <1>5, <1>6

\* The buffer implements the lossy stream: whatever stalls, wraps, crashes,
\* stops and attaches happen, nothing is played twice or ahead of the writer.
THEOREM Refinement == Spec => ImplementsStream
  <1>1. Init => Stream!Init
    BY DEF Init, Stream!Init
  <1>2. CursorInv /\ [Next]_vars => [Stream!Next]_<<write, read>>
    BY StepIsStreamStep
  <1> QED
    BY <1>1, <1>2, CursorInvariance, PTL DEF Spec, ImplementsStream, Stream!Spec

-----------------------------------------------------------------------------
(***************************************************************************)
(* What the slots hold.                                                    *)
(***************************************************************************)

\* The sample of place k in the stream, or the one that overwrites it.
Holds(v, k) == v = k \/ v = k + Capacity

SlotTypes ==
    /\ slot \in [0..Capacity-1 -> Int]
    /\ block \in Seq(Int)
    /\ stored \in Nat /\ batch <= Capacity

\* The slots of the published samples that are not yet wrapped over hold
\* those samples, or a sample of a write that is not published.
PublishedKept ==
    \A k \in Nat : k < write /\ write <= k + Capacity =>
        Holds(slot[k % Capacity], k)

\* The slots of the write that is under way hold its samples.
StoredKept ==
    ppc \in {"store", "publish"} =>
        /\ ppc = "store" => stored < batch
        /\ ppc = "publish" => stored = batch
        /\ \A k \in Nat : write <= k /\ k < write + stored => slot[k % Capacity] = k

\* What the consumer copied is the stream's, unless it was wrapped over.
BlockKept ==
    rpc \in {"copy", "check"} =>
        /\ rpc = "copy" => Len(block) < rCount
        /\ \A j \in DOMAIN block :
              write <= rRead + j - 1 + Capacity => Holds(block[j], rRead + j - 1)

SlotInv == SlotTypes /\ PublishedKept /\ StoredKept /\ BlockKept

LEMMA SlotOfSample ==
    ASSUME NEW a \in Nat
    PROVE  a % Capacity \in 0..Capacity-1
  BY RingAssumption

\* Two places that share a slot are a multiple of the capacity apart.
LEMMA SameSlotMultiple ==
    ASSUME NEW a \in Nat, NEW b \in Nat, a % Capacity = b % Capacity
    PROVE  \E d \in Int : b - a = Capacity * d
  <1>0. Capacity \in Nat \ {0}
    BY RingAssumption
  <1>1. a = Capacity * (a \div Capacity) + (a % Capacity)
    BY <1>0, SMTT(20)
  <1>2. b = Capacity * (b \div Capacity) + (b % Capacity)
    BY <1>0, SMTT(20)
  <1> DEFINE p == a \div Capacity
             q == b \div Capacity
  <1>3. p \in Int /\ q \in Int
    BY <1>0
  <1>4. b - a = Capacity * (q - p)
    BY <1>0, <1>1, <1>2, <1>3, SMTT(20)
  <1> QED
    BY <1>3, <1>4

LEMMA SameSlotApart ==
    ASSUME NEW a \in Nat, NEW b \in Nat, a % Capacity = b % Capacity, a < b
    PROVE  a + Capacity <= b
  <1>0. Capacity \in Nat \ {0}
    BY RingAssumption
  <1>1. PICK d \in Int : b - a = Capacity * d
    BY SameSlotMultiple
  <1>2. d >= 1
    BY <1>0, <1>1, SMTT(20)
  <1> QED
    BY <1>0, <1>1, <1>2, SMTT(20)

\* Less than two capacities apart, they are one capacity apart.
LEMMA SameSlotNext ==
    ASSUME NEW a \in Nat, NEW b \in Nat, a % Capacity = b % Capacity,
           a < b, b < a + Capacity + Capacity
    PROVE  b = a + Capacity
  <1>0. Capacity \in Nat \ {0}
    BY RingAssumption
  <1>1. PICK d \in Int : b - a = Capacity * d
    BY SameSlotMultiple
  <1>2. d >= 1
    BY <1>0, <1>1, SMTT(20)
  <1>3. d < 2
    BY <1>0, <1>1, SMTT(20)
  <1>4. d = 1
    BY <1>2, <1>3
  <1> QED
    BY <1>0, <1>1, <1>4

-----------------------------------------------------------------------------
LEMMA SlotInit == Init => SlotInv
  <1> SUFFICES ASSUME Init PROVE SlotInv
    OBVIOUS
  <1>1. SlotTypes
    BY RingAssumption DEF Init, SlotTypes, Empty
  <1>2. PublishedKept /\ StoredKept /\ BlockKept
    BY DEF Init, PublishedKept, StoredKept, BlockKept
  <1> QED
    BY <1>1, <1>2 DEF SlotInv

\* A step that leaves the slots, the writer's cursor and the copied block
\* alone, and starts neither a write nor a copy, keeps what the slots hold.
LEMMA SlotFrame ==
    ASSUME SlotInv,
           UNCHANGED <<slot, write, batch, stored, block, rRead, rCount>>,
           ppc' \in {"store", "publish"} => ppc' = ppc,
           rpc' \in {"copy", "check"} => rpc' = rpc
    PROVE  SlotInv'
  <1>1. SlotTypes'
    BY DEF SlotInv, SlotTypes
  <1>2. PublishedKept'
    BY DEF SlotInv, PublishedKept, Holds
  <1>3. StoredKept'
    BY DEF SlotInv, StoredKept
  <1>4. BlockKept'
    BY DEF SlotInv, BlockKept, Holds
  <1> QED
    BY <1>1, <1>2, <1>3, <1>4 DEF SlotInv

LEMMA BeginWriteSlots ==
    ASSUME CursorInv, SlotInv, NEW n \in 1..Batch, BeginWrite(n)
    PROVE  SlotInv'
  <1>1. n \in Nat /\ n > 0 /\ n <= Capacity
    BY RingAssumption
  <1>2. /\ UNCHANGED <<slot, write, block, rpc, rRead, rCount>>
        /\ batch' = n /\ stored' = 0 /\ ppc' = "store"
    BY DEF BeginWrite, sharedVars, consumerVars
  <1>3. SlotTypes'
    BY <1>1, <1>2 DEF SlotInv, SlotTypes
  <1>4. PublishedKept'
    BY <1>2 DEF SlotInv, PublishedKept, Holds
  <1>5. StoredKept'
    BY <1>1, <1>2 DEF StoredKept, CursorInv, CursorTypes
  <1>6. BlockKept'
    BY <1>2 DEF SlotInv, BlockKept, Holds
  <1> QED
    BY <1>3, <1>4, <1>5, <1>6 DEF SlotInv

\* A sample is stored at place x.  Among the published places that are not yet
\* wrapped over, only the one a capacity before x has its slot; among the
\* places this write has stored, none has.
LEMMA StoreSampleSlots ==
    ASSUME CursorInv, SlotInv, StoreSample
    PROVE  SlotInv'
  <1> DEFINE x == write + stored
  <1>0. Capacity \in Nat \ {0}
    BY RingAssumption
  <1>1. /\ write \in Nat /\ stored \in Nat /\ batch \in Nat
        /\ stored < batch /\ batch <= Capacity /\ x \in Nat
    BY DEF CursorInv, CursorTypes, SlotInv, SlotTypes, StoredKept, StoreSample
  <1>2. /\ UNCHANGED <<write, batch, block, rpc, rRead, rCount>>
        /\ slot' = [slot EXCEPT ![x % Capacity] = x] /\ stored' = stored + 1
        /\ ppc' = IF stored + 1 = batch THEN "publish" ELSE "store"
    BY DEF StoreSample, consumerVars
  <1> HIDE DEF x
  <1>3. \A i \in 0..Capacity-1 : slot'[i] = IF i = x % Capacity THEN x ELSE slot[i]
    BY <1>2 DEF SlotInv, SlotTypes
  <1>4. SlotTypes'
    <2>1. slot' \in [0..Capacity-1 -> Int]
      <3>1. slot \in [0..Capacity-1 -> Int] /\ x \in Int
        BY <1>1 DEF SlotInv, SlotTypes
      <3> QED
        BY <1>2, <3>1, Zenon
    <2> QED
      BY <1>1, <1>2, <2>1 DEF SlotInv, SlotTypes
  <1>5. PublishedKept'
    <2> SUFFICES ASSUME NEW k \in Nat, k < write, write <= k + Capacity
                 PROVE  Holds(slot'[k % Capacity], k)
      BY <1>2 DEF PublishedKept, Holds
    <2>1. k % Capacity \in 0..Capacity-1
      BY SlotOfSample
    <2>2. CASE k % Capacity = x % Capacity
      <3>1. k < x /\ x < k + Capacity + Capacity
        BY <1>0, <1>1 DEF x
      <3>2. x = k + Capacity
        BY <1>1, <2>2, <3>1, SameSlotNext
      <3> QED
        BY <1>3, <2>1, <2>2, <3>2 DEF Holds
    <2>3. CASE k % Capacity # x % Capacity
      BY <1>3, <2>1, <2>3 DEF SlotInv, PublishedKept
    <2> QED
      BY <2>2, <2>3
  <1>6. StoredKept'
    <2>1. \A k \in Nat : write <= k /\ k < write + stored + 1 => slot'[k % Capacity] = k
      <3> SUFFICES ASSUME NEW k \in Nat, write <= k, k < write + stored + 1
                   PROVE  slot'[k % Capacity] = k
        OBVIOUS
      <3>1. k % Capacity \in 0..Capacity-1
        BY SlotOfSample
      <3>2. CASE k = x
        BY <1>3, <3>1, <3>2
      <3>3. CASE k # x
        <4>1. k < x /\ x < k + Capacity /\ k < write + stored
          BY <1>0, <1>1, <3>3 DEF x
        <4>2. k % Capacity # x % Capacity
          <5> SUFFICES ASSUME k % Capacity = x % Capacity PROVE FALSE
            OBVIOUS
          <5>1. k + Capacity <= x
            BY <1>1, <4>1, SameSlotApart
          <5> QED
            BY <1>0, <1>1, <4>1, <5>1
        <4>3. slot[k % Capacity] = k
          BY <4>1 DEF SlotInv, StoredKept, StoreSample
        <4> QED
          BY <1>3, <3>1, <4>2, <4>3
      <3> QED
        BY <3>2, <3>3
    <2>2. ppc' = "publish" => stored' = batch'
      BY <1>1, <1>2
    <2>3. ppc' = "store" => stored' < batch'
      BY <1>1, <1>2
    <2>4. write' + stored' = write + stored + 1 /\ write' = write
      BY <1>1, <1>2
    <2> QED
      BY <2>1, <2>2, <2>3, <2>4 DEF StoredKept
  <1>7. BlockKept'
    BY <1>2 DEF SlotInv, BlockKept, Holds
  <1> QED
    BY <1>4, <1>5, <1>6, <1>7 DEF SlotInv

LEMMA PublishSlots ==
    ASSUME CursorInv, SlotInv, Publish
    PROVE  SlotInv'
  <1>0. Capacity \in Nat \ {0}
    BY RingAssumption
  <1>1. write \in Nat /\ batch \in Nat /\ stored = batch /\ rRead \in Nat
    BY DEF CursorInv, CursorTypes, SlotInv, StoredKept, Publish
  <1>2. /\ UNCHANGED <<slot, batch, stored, block, rpc, rRead, rCount>>
        /\ write' = write + batch /\ ppc' = "lease"
    BY DEF Publish, consumerVars
  <1>3. SlotTypes'
    BY <1>2 DEF SlotInv, SlotTypes
  <1>4. PublishedKept'
    <2> SUFFICES ASSUME NEW k \in Nat, k < write + batch, write + batch <= k + Capacity
                 PROVE  Holds(slot[k % Capacity], k)
      BY <1>2 DEF PublishedKept, Holds
    <2>1. CASE k < write
      <3>1. write <= k + Capacity
        BY <1>0, <1>1
      <3> QED
        BY <2>1, <3>1 DEF SlotInv, PublishedKept
    <2>2. CASE write <= k
      BY <1>1, <2>2 DEF SlotInv, StoredKept, Publish, Holds
    <2> QED
      BY <1>1, <2>1, <2>2
  <1>5. StoredKept'
    BY <1>2 DEF StoredKept
  <1>6. BlockKept'
    <2> SUFFICES ASSUME rpc \in {"copy", "check"}, NEW j \in DOMAIN block,
                        write + batch <= rRead + j - 1 + Capacity
                 PROVE  Holds(block[j], rRead + j - 1)
      BY <1>2 DEF SlotInv, BlockKept, Holds
    <2>1. j \in Nat
      BY DEF SlotInv, SlotTypes
    <2>2. write <= rRead + j - 1 + Capacity
      BY <1>0, <1>1, <2>1
    <2> QED
      BY <2>2 DEF SlotInv, BlockKept
  <1> QED
    BY <1>3, <1>4, <1>5, <1>6 DEF SlotInv

LEMMA LoadWriteSlots ==
    ASSUME CursorInv, SlotInv, LoadWrite
    PROVE  SlotInv'
  <1>1. /\ UNCHANGED <<slot, write, ppc, batch, stored>>
        /\ block' = <<>>
    BY DEF LoadWrite, producerVars
  <1>2. SlotTypes' /\ PublishedKept' /\ StoredKept'
    BY <1>1 DEF SlotInv, SlotTypes, PublishedKept, StoredKept, Holds
  <1>3. BlockKept'
    BY <1>1, LoadWriteBound DEF BlockKept
  <1> QED
    BY <1>2, <1>3 DEF SlotInv

\* The sample that is copied was published when the write cursor was loaded.
LEMMA CopySampleSlots ==
    ASSUME CursorInv, SlotInv, CopySample
    PROVE  SlotInv'
  <1> DEFINE k == rRead + Len(block)
  <1>0. Capacity \in Nat \ {0}
    BY RingAssumption
  <1>1. /\ write \in Nat /\ rRead \in Nat /\ rCount \in Nat
        /\ rRead + rCount <= write /\ Len(block) \in Nat /\ Len(block) < rCount
        /\ block \in Seq(Int)
    BY DEF CursorInv, CursorTypes, RenderOwnsRead, SlotInv, SlotTypes, BlockKept,
           CopySample
  <1>2. k \in Nat /\ k < write
    BY <1>1
  <1>3. /\ UNCHANGED <<slot, write, ppc, batch, stored, rRead, rCount>>
        /\ block' = Append(block, slot[k % Capacity])
        /\ rpc' = IF Len(block) + 1 = rCount THEN "check" ELSE "copy"
    BY DEF CopySample, sharedVars, producerVars
  <1>4. k % Capacity \in 0..Capacity-1
    BY <1>2, SlotOfSample
  <1>5. slot[k % Capacity] \in Int
    BY <1>4 DEF SlotInv, SlotTypes
  <1>6. SlotTypes'
    BY <1>3, <1>5 DEF SlotInv, SlotTypes
  <1>7. PublishedKept' /\ StoredKept'
    BY <1>3 DEF SlotInv, PublishedKept, StoredKept, Holds
  <1>8. write <= k + Capacity => Holds(slot[k % Capacity], k)
    BY <1>2 DEF SlotInv, PublishedKept
  <1>9. BlockKept'
    <2>1. rpc' = "copy" => Len(block') < rCount'
      BY <1>1, <1>3, <1>5
    <2>2. ASSUME NEW j \in DOMAIN block', write <= rRead + j - 1 + Capacity
          PROVE  Holds(block'[j], rRead + j - 1)
      <3>1. j \in 1..Len(block) + 1
        BY <1>1, <1>3, <1>5, <2>2
      <3>2. CASE j = Len(block) + 1
        <4>1. rRead + j - 1 = k /\ block'[j] = slot[k % Capacity]
          BY <1>1, <1>3, <1>5, <3>2
        <4> QED
          BY <1>8, <2>2, <4>1
      <3>3. CASE j \in 1..Len(block)
        <4>1. j \in DOMAIN block /\ block'[j] = block[j]
          BY <1>1, <1>3, <1>5, <3>3
        <4> QED
          BY <2>2, <4>1 DEF SlotInv, BlockKept, CopySample
      <3> QED
        BY <1>1, <3>1, <3>2, <3>3
    <2> QED
      BY <1>3, <2>1, <2>2 DEF BlockKept, Holds
  <1> QED
    BY <1>6, <1>7, <1>9 DEF SlotInv

LEMMA SlotStep == CursorInv /\ SlotInv /\ [Next]_vars => SlotInv'
  <1> SUFFICES ASSUME CursorInv, SlotInv, [Next]_vars PROVE SlotInv'
    OBVIOUS
  <1>1. CASE \E n \in 1..Batch : BeginWrite(n)
    BY <1>1, BeginWriteSlots
  <1>2. CASE StoreSample
    BY <1>2, StoreSampleSlots
  <1>3. CASE Publish
    BY <1>3, PublishSlots
  <1>4. CASE LoadWrite
    BY <1>4, LoadWriteSlots
  <1>5. CASE CopySample
    BY <1>5, CopySampleSlots
  <1>6. CASE Open \/ RefreshLease \/ Activate \/ Drain \/ Stop \/ Crash \/ BrokerDeactivates
    BY <1>6, SlotFrame DEF Open, RefreshLease, Activate, Drain, Stop, Crash,
       BrokerDeactivates, Inactive, sharedVars, producerVars, consumerVars
  <1>7. CASE AttachLoadWrite \/ AttachJoin \/ Detach \/ CheckActive \/ CheckLease \/ Commit
    BY <1>7, SlotFrame DEF AttachLoadWrite, AttachJoin, Detach, CheckActive,
       CheckLease, Commit, Goto, sharedVars, producerVars
  <1>8. CASE Tick \/ UNCHANGED vars
    BY <1>8, SlotFrame DEF Tick, producerVars, consumerVars, vars
  <1> QED
    BY <1>1, <1>2, <1>3, <1>4, <1>5, <1>6, <1>7, <1>8
       DEF Next, Producer, Consumer, Render

\* Every block that is played holds the samples of its place in the stream,
\* except for slots a write that is not yet published has overwritten: for
\* every capacity, and however long the render is stalled between accesses.
THEOREM AcceptedBlocksCorrect == Spec => []AcceptedSamplesAreOurs
  <1>1. CursorInv /\ SlotInv => AcceptedSamplesAreOurs
    <2> SUFFICES ASSUME CursorInv, SlotInv, rpc = "check", ~Wrapped,
                        NEW j \in DOMAIN block
                 PROVE  \/ block[j] = rRead + j - 1
                        \/ block[j] = rRead + j - 1 + Capacity /\ block[j] >= write
      BY DEF AcceptedSamplesAreOurs
    <2>1. /\ j \in Nat /\ j >= 1 /\ Capacity \in Nat
          /\ write \in Nat /\ rRead \in Nat /\ write <= rRead + Capacity
      BY RingAssumption DEF CursorInv, CursorTypes, SlotInv, SlotTypes, Wrapped
    <2>2. write <= rRead + j - 1 + Capacity
      BY <2>1
    <2>3. Holds(block[j], rRead + j - 1)
      BY <2>2 DEF SlotInv, BlockKept
    <2> QED
      BY <2>2, <2>3 DEF Holds
  <1>2. Spec => [](CursorInv /\ SlotInv)
    BY CursorInit, SlotInit, CursorStep, SlotStep, PTL DEF Spec
  <1> QED
    BY <1>1, <1>2, PTL
=============================================================================
