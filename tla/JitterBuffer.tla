---------------------------- MODULE JitterBuffer ----------------------------
(***************************************************************************)
(* AudioJitterBuffer: frames are put back in order behind a window of      *)
(* ReorderDepth frames, a short gap is concealed, a long one is skipped,   *)
(* and the first StartupFrames frames are held back as a reservoir.        *)
(*                                                                         *)
(* A frame is its wire sequence number.  Where a frame came from, primary  *)
(* or redundant, only shows in the metrics.                                *)
(***************************************************************************)
EXTENDS Integers, FiniteSets, Sequences, SequencesExt

CONSTANTS
    ReorderDepth,   \* reorderDepth
    ConcealedGap,   \* maximumConcealedGapFrames
    StartupFrames   \* reliableVoiceStartupFrameCount

ASSUME JitterAssumption ==
    /\ ReorderDepth \in Nat \ {0} /\ ConcealedGap \in Nat
    /\ StartupFrames \in Nat \ {0}

Unset == -1     \* nextSequence and highestSequence before the first frame

Frame(n, real) == [seq |-> n, real |-> real]    \* real, or concealment

EmptyBuffer == [next |-> Unset, highest |-> Unset, pending |-> {}, started |-> FALSE,
                held |-> <<>>]

\* Nothing to release is no batch.
Result(buffer, batch) == [buf |-> buffer, batch |-> batch]

Late(b, n) == b.next # Unset /\ n < b.next

Queue(b, n) == [b EXCEPT !.pending = @ \union {n},
                         !.next = IF @ = Unset THEN n ELSE @,
                         !.highest = IF n > @ THEN n ELSE @]

\* The first frame at or after n that has arrived; the highest always has.
GapEnd(b, n) == CHOOSE m \in b.pending :
                    m >= n /\ \A k \in b.pending : k >= n => m <= k

\* The frames in a gap that is too long to be concealed, seen from where the
\* playout stands when it reaches it.
Skipped(b) ==
    {n \in b.next..b.highest :
        \E from \in b.next..n :
            /\ from = b.next \/ from - 1 \in b.pending
            /\ \A k \in from..n : k \notin b.pending
            /\ GapEnd(b, n) - from > ConcealedGap}

\* A mutation: the window is one frame too short.
DeadlineEarly(b) ==
    IF b.highest - b.next < ReorderDepth - 1 THEN b.next
    ELSE LET last == b.highest - ReorderDepth + 1 IN
         IF last \in Skipped(b) THEN GapEnd(b, last) ELSE last + 1

\* A mutation: the window is one frame too long.
DeadlineLate(b) ==
    IF b.highest - b.next <= ReorderDepth THEN b.next
    ELSE LET last == b.highest - ReorderDepth - 1 IN
         IF last \in Skipped(b) THEN GapEnd(b, last) ELSE last + 1

\* Where the playout stops: the window behind the highest frame, or the end of
\* the gap that was skipped.
Deadline(b) ==
    IF b.highest - b.next < ReorderDepth THEN b.next
    ELSE LET last == b.highest - ReorderDepth IN
         IF last \in Skipped(b) THEN GapEnd(b, last) ELSE last + 1

\* The i-th of the numbers in order has i of them up to it.
Nth(numbers, i) == CHOOSE n \in numbers : Cardinality({m \in numbers : m <= n}) = i

InOrder(b, numbers) ==
    [i \in 1..Cardinality(numbers) |-> Frame(Nth(numbers, i), Nth(numbers, i) \in b.pending)]

\* A mutation: an off-by-one in what leaves the window.
AdvanceDropping(b, next) == [b EXCEPT !.pending = {n \in @ : n > next}, !.next = next]

Advance(b, next) == [b EXCEPT !.pending = {n \in @ : n >= next}, !.next = next]

\* A mutation: the reservoir is passed on and kept.
ThroughReservoirTwice(b, ready) ==
    IF b.started THEN Result(b, ready)
    ELSE IF Len(b.held \o ready) >= StartupFrames
         THEN Result([b EXCEPT !.started = TRUE], b.held \o ready)
         ELSE Result([b EXCEPT !.held = @ \o ready], <<>>)

\* Until the reservoir is full, what is ready is held.
ThroughReservoir(b, ready) ==
    IF b.started THEN Result(b, ready)
    ELSE IF Len(b.held \o ready) >= StartupFrames
         THEN Result([b EXCEPT !.started = TRUE, !.held = <<>>], b.held \o ready)
         ELSE Result([b EXCEPT !.held = @ \o ready], <<>>)

\* push
Push(b, n) ==
    IF Late(b, n) \/ n \in b.pending THEN Result(b, <<>>)
    ELSE LET queued == Queue(b, n)
             next   == Deadline(queued)
         IN  ThroughReservoir(Advance(queued, next),
                 InOrder(queued, (queued.next..(next - 1)) \ Skipped(queued)))

\* A mutation: finish releases the window and forgets the reservoir.
FinishWithoutReservoir(b) ==
    IF b.next = Unset THEN <<>>
    ELSE InOrder(b, b.next..b.highest)

\* finish: everything that is left, whatever its gaps.
Finish(b) ==
    IF b.next = Unset THEN <<>>
    ELSE b.held \o InOrder(b, b.next..b.highest)
=============================================================================
