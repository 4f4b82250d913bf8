--------------------------- MODULE AudioPathProofs ---------------------------
(***************************************************************************)
(* The audio path: proofs about AudioSession and AudioReceiver.            *)
(*                                                                         *)
(* Why is a ready receiver one the Mac has validated, and why is no sound  *)
(* sent under another session?  Sessions are offered, applied and copied   *)
(* by transport in order, so a number that is proven, applied or copied    *)
(* bounds the ones behind it:                                              *)
(*   - the offers in the queue are newer than the one applied, and in order, *)
(*     whichever of them were dropped or refused;                           *)
(*   - a session is proven only after it was published, although transport *)
(*     may open its socket between the two stores of its offer;            *)
(*   - ready means that the current offer is proven, hence that transport  *)
(*     has copied it and everything before it.                             *)
(*                                                                         *)
(* Why does the sound come out in order, with everything in it that        *)
(* arrived in time?  What the buffer has released and what its reservoir   *)
(* holds are one sequence, which a push continues where it stands:         *)
(*   - nothing that has arrived lies in a skipped gap, and everything up   *)
(*     to the deadline leaves, so a frame is waiting or in the sequence;   *)
(*   - the sequence ends one behind the window, or before a skipped gap    *)
(*     that ends where the window begins, so it goes on without a hole;    *)
(*   - what leaves has waited for the whole window, longer than a copy.    *)
(*                                                                         *)
(* The constants are arbitrary: a burst has at least four proofs, and a    *)
(* copy takes no longer than the window.                                   *)
(***************************************************************************)
EXTENDS AudioSession, AudioReceiver, SequenceTheorems, FiniteSetTheorems, TLAPS

\* The offers in q are of sessions after a up to b, and in order.
Offers(q, a, b) ==
    /\ a <= b
    /\ \A i \in DOMAIN q : q[i].kind = "offer" => a < q[i].sid /\ q[i].sid <= b
    /\ \A i, j \in DOMAIN q :
        i < j /\ q[i].kind = "offer" /\ q[j].kind = "offer" => q[i].sid < q[j].sid

\* The last session the Mac has offered.
LastOffered == IF offered THEN sid ELSE sid - 1

\* An audio_ready on its way is about a session that was validated.
ReadyIsProven == \A i \in DOMAIN cmds : cmds[i].kind = "ready" => cmds[i].sid \in proven

\* What is applied is ahead of what is published only between two stores, and
\* meanwhile the offer is still the first command.
Applying ==
    /\ mainPc # "bump" => offer = gen
    /\ mainPc # "idle" => cmds # <<>> /\ Head(cmds).kind = "offer"
    /\ mainPc = "bump" => Head(cmds).sid = offer

QueueInv == Offers(cmds, gen, LastOffered) /\ ReadyIsProven /\ Applying

\* Transport has both copied the offer and taken over its generation.
InTurn == pc \in {"connect", "ready", "proof", "pop", "send", "end"}

\* Copies are never ahead of what they copy, and the offer, copied after the
\* generation, is at least as new.
Copies ==
    /\ t.gen <= gen /\ t.offer <= offer /\ t.socket <= t.offer
    /\ InTurn => t.activeGen = t.gen /\ t.gen <= t.offer

\* What is proven was published, and copied before transport sends or looks for
\* a frame to send.
ProvenInv ==
    /\ \A s \in proven : s <= gen /\ s <= t.offer
    /\ (InTurn /\ pc # "proof") \/ pc = "offer" => \A s \in proven : s <= t.gen

\* A socket of a session that is not published yet has sent at most one proof.
SocketPublished ==
    \/ t.socket <= gen
    \/ pc = "ready" /\ candidate = 0
    \/ pc = "proof" /\ burst.n <= 1 /\ candidate <= burst.n

\* The main task withdraws readiness before it touches the offer.
ReadyInv == ready => mainPc = "idle" /\ offer \in proven

\* Audio was accepted only for a session that was offered; a socket just opened
\* owes its proofs.
AcceptedInv == accepted => offered
DueInv == pc = "ready" => t.due

-----------------------------------------------------------------------------
\* The assumptions on the constants, in the form the steps use.
Numbers ==
    /\ Sessions \in Nat /\ Sessions > 0 /\ Drops \in Nat /\ Losses \in Nat
    /\ RingCapacity \in Nat /\ RingCapacity > 0 /\ TestPackets \in Nat /\ TestPackets >= 4
    /\ EndPackets \in Nat /\ EndPackets > 0

\* What the assumptions say of the numbers.
LEMMA NumbersHold == Numbers
BY TransportAssumption, BurstAssumption DEF TransportAssumption, BurstAssumption, Numbers

\* The types, in parts.
QueueTypes == cmds \in Seq(Command) /\ proven \in SUBSET Session /\ sid \in Session
OfferTypes ==
    /\ mainPc \in {"idle", "store", "bump"}
    /\ offer \in 0..Sessions /\ gen \in 0..Sessions
SwitchTypes ==
    /\ ready \in BOOLEAN /\ enabled \in BOOLEAN /\ gap \in BOOLEAN
    /\ offered \in BOOLEAN /\ accepted \in BOOLEAN /\ active \in BOOLEAN
    /\ failed \in BOOLEAN
WifiTypes ==
    /\ wifi \in {"down", "rising", "up"} /\ wifiGen \in 0..(Drops + 1)
    /\ wifi = "rising" => wifiGen <= Drops
LocalTypes ==
    /\ pc \in {"wait", "top", "offer", "connect", "retry", "ready", "proof",
               "pop", "send", "end"}
    /\ t \in Locals
RingTypes ==
    /\ ring \in Seq(1..Sessions) /\ Len(ring) <= RingCapacity
    /\ capPc \in {"idle", "record", "number", "push"} /\ capGen \in 0..Sessions
    /\ capPc # "idle" => capGen > 0
BurstTypes ==
    /\ burst \in [n : 0..TestPackets, run : 0..TestPackets, best : 0..TestPackets,
                  quiet : BOOLEAN, lost : 0..Losses]
    /\ burst.run <= burst.n /\ burst.best <= burst.n /\ burst.run <= burst.best
    /\ candidate \in 0..2
Types ==
    /\ QueueTypes /\ OfferTypes /\ SwitchTypes /\ WifiTypes /\ LocalTypes
    /\ RingTypes /\ BurstTypes

\* In a burst nothing interrupted, capture can take a number only right after the
\* first proof.
BurstInv ==
    pc = "proof" /\ burst.quiet =>
        /\ ~ready
        /\ burst.n = 1 => burst.run = 1
        /\ burst.n >= 2 => ~gap /\ capPc \notin {"number", "push"} /\ burst.run >= burst.n - 1

\* The inductive invariant.
IInv ==
    /\ Types /\ QueueInv /\ Copies /\ ProvenInv /\ SocketPublished /\ ReadyInv
    /\ AcceptedInv /\ DueInv /\ BurstInv

\* The parts make up the type invariant.
LEMMA TypesAreRight == Types => TypeOK
BY DEF Types, TypeOK, DeviceTypeOK, QueueTypes, OfferTypes, SwitchTypes, WifiTypes, LocalTypes,
     RingTypes, BurstTypes

\* Every step, by who makes it.
LEMMA Steps ==
    ASSUME Next
    PROVE  \/ OfferUnchanged /\ UNCHANGED macVars
           \/ OfferClearsReady /\ UNCHANGED macVars
           \/ Refused
           \/ OfferStored /\ UNCHANGED macVars
           \/ OfferPublished /\ UNCHANGED macVars
           \/ MarkReceiverReady /\ UNCHANGED macVars
           \/ SetCaptureEnabled /\ UNCHANGED <<cmds, macVars>>
           \/ (GotIp \/ Disconnected) /\ UNCHANGED <<cmds, macVars>>
           \/ CaptureTask /\ UNCHANGED <<cmds, macVars>>
           \/ TransportSilent /\ UNCHANGED <<cmds, macVars>>
           \/ ProofRetryDue /\ UNCHANGED <<cmds, macVars>>
           \/ Connect \/ Proof \/ Live \/ OfferSession
           \/ StartReceiver /\ ((ShouldOfferSession /\ offered) \/ accepted)
BY DEF Next, Device, Mac, Alone, Silent, MainTask, MainTaskSteps, ApplyOffer,
     RotateFailedOffer, RotateNotReady

\* Who writes what: each variable changes only in the steps named with it, and the
\* variables of the handshake together.
LEMMA Writers ==
    ASSUME Next
    PROVE  /\ UNCHANGED wifiVars \/ GotIp \/ Disconnected
           /\ UNCHANGED mainVars \/ OfferClearsReady \/ OfferStored \/ OfferPublished \/
                OfferRefused
           /\ UNCHANGED cmds \/ OfferUnchanged \/ OfferPublished \/ MarkReceiverReady \/
                OfferSession \/ Proof \/ Refused
           /\ UNCHANGED ready \/ OfferClearsReady \/ MarkReceiverReady \/ Disconnected \/
                TransportTop \/ TransportOffer \/ Connect
           /\ UNCHANGED enabled \/ SetCaptureEnabled
           /\ UNCHANGED <<pc, t>> \/ TransportSilent \/ ProofRetryDue \/ Connect \/ Live
           /\ UNCHANGED ring \/ CapturePushes \/ TransportSilent \/ Connect \/ Live
           /\ UNCHANGED captureVars \/ CaptureTask
           /\ UNCHANGED gap \/ CaptureNumbers \/ TransportEnds \/ Proof
           /\ UNCHANGED burst \/ MarkReceiverReady \/ TransportReady \/ TransportProved \/ Proof
           /\ UNCHANGED proven \/ Proof
           /\ UNCHANGED <<candidate, active>> \/ Connect \/ Proof \/ Live \/ StartReceiver
           /\ UNCHANGED accepted \/ Live \/ StartReceiver
           /\ UNCHANGED <<sid, offered>> \/ OfferSession \/ StartReceiver
           /\ UNCHANGED failed \/ OfferSession \/ Proof \/ Refused \/ StartReceiver
           /\ \/ UNCHANGED <<cmds, mainVars, proven, sid, offered>>
              \/ /\ OfferUnchanged \/ OfferClearsReady \/ OfferStored \/ OfferPublished
                    \/ MarkReceiverReady
                 /\ UNCHANGED macVars
              \/ OfferSession \/ Proof \/ Refused
              \/ StartReceiver /\ (offered \/ accepted)
<1> USE DEF macVars, captureVars, wireVars, mainVars, wifiVars, TransportSilent, CaptureTask
<1>1. CASE OfferUnchanged /\ UNCHANGED macVars
  BY <1>1 DEF OfferUnchanged, audioTasks
<1>2. CASE OfferClearsReady /\ UNCHANGED macVars
  BY <1>2 DEF OfferClearsReady, audioTasks
<1>3. CASE OfferStored /\ UNCHANGED macVars
  BY <1>3 DEF OfferStored, audioTasks
<1>4. CASE OfferPublished /\ UNCHANGED macVars
  BY <1>4 DEF OfferPublished, audioTasks
<1>5. CASE MarkReceiverReady /\ UNCHANGED macVars
  BY <1>5 DEF MarkReceiverReady
<1>6. CASE SetCaptureEnabled /\ UNCHANGED <<cmds, macVars>>
  BY <1>6 DEF SetCaptureEnabled, audioTasks
<1>7. CASE GotIp /\ UNCHANGED <<cmds, macVars>>
  BY <1>7 DEF GotIp, audioTasks
<1>8. CASE Disconnected /\ UNCHANGED <<cmds, macVars>>
  BY <1>8 DEF Disconnected, audioTasks
<1>9. CASE CaptureTask /\ UNCHANGED <<cmds, macVars>>
  BY <1>9 DEF CaptureTask, CaptureBegins, CaptureCompletes, CaptureNumbers, CapturePushes, core0
<1>10. CASE TransportTop /\ UNCHANGED <<cmds, macVars>>
  BY <1>10 DEF TransportTop, core0ButReady
<1>11. CASE TransportOffer /\ UNCHANGED <<cmds, macVars>>
  BY <1>11 DEF TransportOffer, core0ButReady
<1>12. CASE ConnectFails /\ UNCHANGED <<cmds, macVars>>
  BY <1>12 DEF ConnectFails, core0
<1>13. CASE TransportReady /\ UNCHANGED <<cmds, macVars>>
  BY <1>13 DEF TransportReady, core0
<1>14. CASE TransportProved /\ UNCHANGED <<cmds, macVars>>
  BY <1>14 DEF TransportProved, core0
<1>15. CASE TransportPops /\ UNCHANGED <<cmds, macVars>>
  BY <1>15 DEF TransportPops, core0
<1>16. CASE (TransportEnds \/ TransportEnded) /\ UNCHANGED <<cmds, macVars>>
  BY <1>16 DEF TransportEnds, TransportEnded, core0
<1>17. CASE ProofRetryDue /\ UNCHANGED <<cmds, macVars>>
  BY <1>17 DEF ProofRetryDue, core0
<1>18. CASE Connect
  BY <1>18 DEF Connect, TransportConnects, core0ButReady
<1>19. CASE Proof
  BY <1>19 DEF Proof, TransportProof, core0
<1>20. CASE Live
  BY <1>20 DEF Live, TransportSends, core0
<1>21. CASE OfferSession
  BY <1>21 DEF OfferSession, audioTasks
<1>22. CASE StartReceiver /\ ((ShouldOfferSession /\ offered) \/ accepted)
  BY <1>22 DEF StartReceiver, deviceVars
<1>23. CASE Refused
  BY <1>23 DEF Refused, MainRefuses, OfferRefused, MarkRefused, audioTasks
<1> QED
  BY <1>1, <1>2, <1>3, <1>4, <1>5, <1>6, <1>7, <1>8, <1>9, <1>10, <1>11, <1>12, <1>13, <1>14,
       <1>15, <1>16, <1>17, <1>18, <1>19, <1>20, <1>21, <1>22, <1>23, Steps DEF TransportSilent

\* wifi_event keeps its types.
LEMMA WifiStep == ASSUME Numbers, WifiTypes, Next PROVE WifiTypes'
<1>1. CASE GotIp
  BY <1>1 DEF GotIp, WifiTypes, Numbers
<1>2. CASE Disconnected
  BY <1>2 DEF Disconnected, WifiTypes, Numbers
<1>3. CASE UNCHANGED wifiVars
  BY <1>3 DEF wifiVars, WifiTypes
<1> QED BY <1>1, <1>2, <1>3, Writers

\* The flags are written as flags.
LEMMA SwitchStep == ASSUME SwitchTypes, Next PROVE SwitchTypes'
<1>1. ready' \in BOOLEAN
  BY Writers DEF SwitchTypes, OfferClearsReady, MarkReceiverReady, MarksCurrent, Disconnected,
       TransportTop, TransportOffer, Connect, TransportConnects
<1>2. enabled' \in BOOLEAN
  BY Writers DEF SwitchTypes, SetCaptureEnabled
<1>3. gap' \in BOOLEAN
  BY Writers DEF SwitchTypes, CaptureNumbers, TransportEnds, Proof, TransportProof
<1>4. active' \in BOOLEAN
  BY Writers DEF SwitchTypes, Connect, Proof, ProofArrives, Live, StartReceiver
<1>5. accepted' \in BOOLEAN
  BY Writers DEF SwitchTypes, Live, StartReceiver
<1>6. offered' \in BOOLEAN
  BY Writers DEF SwitchTypes, OfferSession, StartReceiver
<1>7. failed' \in BOOLEAN
  BY Writers DEF SwitchTypes, OfferSession, Sends, Proof, ProofArrives, Refused, StartReceiver
<1> QED BY <1>1, <1>2, <1>3, <1>4, <1>5, <1>6, <1>7 DEF SwitchTypes

\* ForgetRecording changes a flag.
LEMMA Forgets == ASSUME NEW l \in Locals PROVE ForgetRecording(l) \in Locals
BY DEF Locals, ForgetRecording

\* Transport keeps the types of its locals.
LEMMA LocalStep ==
    ASSUME Numbers, LocalTypes, OfferTypes, WifiTypes, SwitchTypes, RingTypes, Next
    PROVE  LocalTypes'
<1> USE DEF LocalTypes, Locals, Numbers
<1>0. gen \in 0..Sessions /\ offer \in 0..Sessions /\ wifiGen \in 0..(Drops + 1)
  BY DEF OfferTypes, WifiTypes
<1>1. CASE TransportTop
  <2>1. [t EXCEPT !.gen = gen] \in Locals
    BY <1>0
  <2>2. 0 \in 0..Sessions
    OBVIOUS
  <2>3. [t EXCEPT !.gen = gen, !.socket = 0] \in Locals
    BY <1>0, <2>2
  <2> HIDE DEF Locals
  <2> QED BY <1>1, <2>1, <2>3, Forgets DEF TransportTop
<1>2. CASE TransportOffer
  <2>1. [t EXCEPT !.offer = offer] \in Locals
    BY <1>0
  <2>2. t.gen \in 0..Sessions /\ 0 \in 0..Sessions /\ 0 \in 0..(Drops + 1)
    BY <1>0
  <2>3. ASSUME NEW l \in Locals
        PROVE  [l EXCEPT !.activeGen = t.gen, !.wifiGen = 0, !.socket = 0,
                 !.due = TRUE] \in Locals
    BY <2>2
  <2> HIDE DEF Locals
  <2> QED BY <1>2, <2>1, <2>3, Forgets DEF TransportOffer
<1>3. CASE ConnectFails
  BY <1>3 DEF ConnectFails
<1>4. CASE TransportReady
  BY <1>4 DEF TransportReady, ForgetRecording
<1>5. CASE TransportProved
  BY <1>5 DEF TransportProved, ForgetRecording
<1>6. CASE TransportPops
  <2>1. enabled \in BOOLEAN /\ (ring # <<>> => Head(ring) \in 0..Sessions)
    <3>1. ring # <<>> => Head(ring) \in 1..Sessions
      BY HeadTailProperties DEF RingTypes
    <3> QED BY <3>1 DEF SwitchTypes
  <2> QED BY <1>6, <2>1 DEF TransportPops
<1>7. CASE TransportEnds \/ TransportEnded
  <2>1. /\ t.ends < EndPackets => [t EXCEPT !.ends = @ + 1] \in Locals
        /\ [t EXCEPT !.ends = 0] \in Locals
    OBVIOUS
  <2> HIDE DEF Locals
  <2> QED BY <1>7, <2>1, Forgets DEF TransportEnds, TransportEnded
<1>8. CASE ProofRetryDue
  BY <1>8 DEF ProofRetryDue
<1>9. CASE Connect
  BY <1>0, <1>9 DEF Connect, TransportConnects, ForgetRecording
<1>10. CASE Live
  <2>1. [t EXCEPT !.frame = 0] \in Locals
    OBVIOUS
  <2> HIDE DEF Locals
  <2> QED BY <1>10, <2>1, Forgets DEF Live, TransportSends
<1>11. CASE UNCHANGED <<pc, t>>
  BY <1>11
<1> QED BY <1>1, <1>2, <1>3, <1>4, <1>5, <1>6, <1>7, <1>8, <1>9, <1>10, <1>11, Writers
       DEF TransportSilent

\* Capture keeps its types, and the ring within its capacity.
LEMMA RingStep ==
    ASSUME Numbers, RingTypes, OfferTypes, Next
    PROVE  RingTypes'
<1> USE DEF Numbers, OfferTypes
<1>1. capPc' \in {"idle", "record", "number", "push"} /\ capGen' \in 0..Sessions /\
        (capPc' # "idle" => capGen' > 0)
  <2>1. CASE CaptureTask
    BY <2>1 DEF CaptureTask, CaptureBegins, CaptureCompletes, CaptureNumbers, CapturePushes,
         ShouldCapture,
         RingTypes
  <2>2. CASE UNCHANGED captureVars
    BY <2>2 DEF captureVars, RingTypes
  <2> QED BY <2>1, <2>2, Writers
<1>2. /\ <<>> \in Seq(1..Sessions) /\ Len(<<>>) <= RingCapacity
      /\ ring # <<>> => Tail(ring) \in Seq(1..Sessions) /\ Len(Tail(ring)) <= RingCapacity
  BY EmptySeq, HeadTailProperties DEF RingTypes
<1>3. ring' \in Seq(1..Sessions) /\ Len(ring') <= RingCapacity
  <2>1. CASE CapturePushes
    <3>1. capGen \in 1..Sessions
      BY <2>1 DEF CapturePushes, RingTypes
    <3>2. Append(ring, capGen) \in Seq(1..Sessions) /\ Len(Append(ring, capGen)) = Len(ring) + 1
      BY <3>1, AppendProperties DEF RingTypes
    <3>3. Len(ring) \in Nat
      BY LenProperties DEF RingTypes
    <3>4. (ring' = Append(ring, capGen) /\ Len(ring) < RingCapacity) \/ ring' = ring
      BY <2>1 DEF CapturePushes
    <3>5. ring' \in Seq(1..Sessions) /\ Len(ring') <= RingCapacity
      <4>1. CASE ring' = Append(ring, capGen) /\ Len(ring) < RingCapacity
        BY <3>2, <3>3, <4>1, NumbersHold DEF Numbers
      <4>2. CASE ring' = ring
        BY <4>2 DEF RingTypes
      <4> QED BY <3>4, <4>1, <4>2
    <3> QED BY <3>5 DEF RingTypes
  <2>2. CASE TransportSilent
    BY <1>2, <2>2 DEF RingTypes, TransportSilent, TransportTop, TransportOffer, ConnectFails,
         TransportReady, TransportProved, TransportPops, TransportEnds, TransportEnded
  <2>3. CASE Connect \/ Live
    BY <1>2, <2>3 DEF RingTypes, Connect, TransportConnects, Live, TransportSends
  <2>4. CASE UNCHANGED ring
    BY <2>4 DEF RingTypes
  <2> QED BY <2>1, <2>2, <2>3, <2>4, Writers
<1> QED BY <1>1, <1>3 DEF RingTypes

\* A burst counts no further than its proofs.
LEMMA BurstStep ==
    ASSUME Numbers, BurstTypes, SwitchTypes, Next
    PROVE  BurstTypes'
<1> USE DEF Numbers
<1> DEFINE Bursts == [n : 0..TestPackets, run : 0..TestPackets, best : 0..TestPackets,
                      quiet : BOOLEAN, lost : 0..Losses]
           Bounded(b) == b.run <= b.n /\ b.best <= b.n /\ b.run <= b.best
<1>1. burst' \in Bursts /\ Bounded(burst')
  <2>0. burst \in Bursts /\ Bounded(burst)
    BY DEF BurstTypes
  <2>1. CASE MarkReceiverReady
    BY <2>0, <2>1 DEF MarkReceiverReady
  <2>2. CASE TransportReady \/ TransportProved
    <3>1. NoProofs \in Bursts /\ Bounded(NoProofs)
      BY DEF NoProofs
    <3>2. burst' \in {burst, NoProofs}
      BY <2>2 DEF TransportReady, TransportProved
    <3> HIDE DEF Bursts
    <3> QED BY <2>0, <3>1, <3>2
  <2>3. ASSUME NEW lost \in {0, 1}, lost = 1 => burst.lost < Losses, TransportProof(lost)
        PROVE  burst' \in Bursts /\ Bounded(burst')
    <3> DEFINE run == IF gap THEN 1 ELSE burst.run + 1
    <3>1. run \in Nat /\ run <= burst.n + 1 /\ burst.n + 1 \in 0..TestPackets
          /\ burst.lost + lost \in 0..Losses /\ burst.best \in 0..TestPackets /\
               burst.best <= burst.n
          /\ burst.n \in Nat
      BY <2>0, <2>3 DEF TransportProof
    <3> HIDE DEF run
    <3>2. burst' = [n |-> burst.n + 1, run |-> run, quiet |-> burst.quiet,
                    best |-> IF run > burst.best THEN run ELSE burst.best,
                    lost |-> burst.lost + lost]
      BY <2>3 DEF TransportProof, run
    <3> QED BY <2>0, <3>1, <3>2
  <2>4. CASE Proof
    BY <2>0, <2>3, <2>4 DEF Proof
  <2> QED BY <2>0, <2>1, <2>2, <2>4, Writers
<1>2. candidate' \in 0..2
  <2>0. candidate \in 0..2
    BY DEF BurstTypes
  <2>1. CASE Connect \/ Live \/ StartReceiver
    BY <2>0, <2>1 DEF Connect, Live, StartReceiver
  <2>2. CASE Proof
    BY <2>0, <2>2 DEF Proof, ProofArrives, Run
  <2> QED BY <2>0, <2>1, <2>2, Writers
<1> HIDE DEF Bursts
<1> QED BY <1>1, <1>2 DEF BurstTypes, Bursts

\* Appending a command: an audio_ready changes nothing about the offers, the offer of
\* the next session extends them, and so does one that is dropped.
LEMMA OffersAppend ==
    ASSUME NEW q \in Seq(Command), NEW c \in Command, NEW a \in Nat, NEW b \in Nat,
           Offers(q, a, b)
    PROVE  /\ c.kind = "ready" => Offers(Append(q, c), a, b)
           /\ c = [kind |-> "offer", sid |-> b + 1] => Offers(Append(q, c), a, b + 1)
           /\ Offers(q, a, b + 1)
<1> DEFINE r == Append(q, c)
<1>1. /\ r \in Seq(Command) /\ DOMAIN r = 1..Len(q) + 1 /\ DOMAIN q = 1..Len(q) /\
           Len(q) \in Nat
      /\ \A i \in 1..Len(q) : r[i] = q[i]
      /\ r[Len(q) + 1] = c
  BY AppendProperties, LenProperties
<1>2. \A i \in 1..Len(q) : q[i] \in Command
  BY <1>1, ElementOfSeq
<1> HIDE DEF r
<1>3. \A i \in DOMAIN r : i \in DOMAIN q \/ i = Len(q) + 1
  BY <1>1
<1>4. \A i \in DOMAIN q : i \in DOMAIN r /\ r[i] = q[i] /\ i < Len(q) + 1
  BY <1>1
<1>5. ASSUME c.kind = "ready" PROVE Offers(r, a, b)
  BY <1>1, <1>3, <1>4, <1>5 DEF Offers
<1>6. ASSUME c = [kind |-> "offer", sid |-> b + 1] PROVE Offers(r, a, b + 1)
  <2>1. c.kind = "offer" /\ c.sid = b + 1 /\ a <= b
    BY <1>6 DEF Offers
  <2>2. ASSUME NEW i \in DOMAIN r, r[i].kind = "offer" PROVE a < r[i].sid /\ r[i].sid <= b + 1
    <3>1. CASE i \in DOMAIN q
      <4>1. r[i].sid \in Nat /\ a < r[i].sid /\ r[i].sid <= b
        BY <1>1, <1>2, <1>4, <2>2, <3>1 DEF Offers, Command, Session
      <4> QED BY <4>1
    <3>2. CASE i = Len(q) + 1
      BY <1>1, <2>1, <3>2
    <3> QED BY <1>3, <3>1, <3>2
  <2>3. ASSUME NEW i \in DOMAIN r, NEW j \in DOMAIN r, i < j, r[i].kind = "offer",
                 r[j].kind = "offer"
        PROVE  r[i].sid < r[j].sid
    <3>0. i \in DOMAIN q
      BY <1>1, <2>3
    <3>1. CASE j \in DOMAIN q
      BY <1>4, <2>3, <3>0, <3>1 DEF Offers
    <3>2. CASE j = Len(q) + 1
      <4>1. r[i].sid \in Nat /\ r[i].sid <= b
        BY <1>1, <1>2, <1>4, <2>3, <3>0 DEF Offers, Command, Session
      <4> QED BY <1>1, <2>1, <3>2, <4>1
    <3> QED BY <1>3, <3>1, <3>2
  <2> QED BY <2>1, <2>2, <2>3 DEF Offers
<1>7. Offers(q, a, b + 1)
  <2>1. \A i \in DOMAIN q : q[i].sid \in Nat
    BY <1>1, <1>2 DEF Command, Session
  <2> QED BY <2>1 DEF Offers
<1> QED BY <1>5, <1>6, <1>7 DEF r

\* Taking the first command leaves offers as new as before, and newer ones than
\* an offer that was taken.
LEMMA OffersTail ==
    ASSUME Numbers, NEW q \in Seq(Command), q # <<>>, NEW a \in Nat, NEW b \in Nat,
           Offers(q, a, b)
    PROVE  /\ Offers(Tail(q), a, b)
           /\ Head(q).kind = "offer" =>
                /\ a < Head(q).sid /\ Head(q).sid <= b
                /\ Offers(Tail(q), Head(q).sid, b)
<1> DEFINE r == Tail(q)
<1>1. /\ Head(q) = q[1] /\ 1 \in DOMAIN q /\ DOMAIN q = 1..Len(q) /\ Len(q) \in Nat
      /\ DOMAIN r = 1..(Len(q) - 1)
      /\ \A i \in 1..(Len(q) - 1) : r[i] = q[i + 1]
  BY HeadTailProperties, LenProperties
<1> HIDE DEF r
<1>2. \A i \in DOMAIN r : i \in Nat /\ i + 1 \in DOMAIN q /\ r[i] = q[i + 1] /\ 1 < i + 1
  BY <1>1
<1>3. ASSUME NEW i \in DOMAIN r, NEW j \in DOMAIN r, i < j, r[i].kind = "offer",
               r[j].kind = "offer"
      PROVE  r[i].sid < r[j].sid
  <2>1. i + 1 \in DOMAIN q /\ j + 1 \in DOMAIN q /\ i + 1 < j + 1 /\ r[i] = q[i + 1] /\
          r[j] = q[j + 1]
    BY <1>2, <1>3
  <2> QED BY <1>3, <2>1 DEF Offers
<1>4. Offers(r, a, b)
  BY <1>2, <1>3 DEF Offers
<1>5. ASSUME Head(q).kind = "offer"
      PROVE  a < Head(q).sid /\ Head(q).sid <= b /\ Offers(r, Head(q).sid, b)
  <2>1. a < q[1].sid /\ q[1].sid <= b
    BY <1>1, <1>5 DEF Offers
  <2>2. ASSUME NEW i \in DOMAIN r, r[i].kind = "offer"
        PROVE  q[1].sid < r[i].sid /\ r[i].sid <= b
    <3>1. i + 1 \in DOMAIN q /\ 1 < i + 1 /\ r[i] = q[i + 1]
      BY <1>2
    <3> QED BY <1>1, <1>5, <2>2, <3>1 DEF Offers
  <2> QED BY <1>1, <1>3, <2>1, <2>2 DEF Offers
<1> QED BY <1>4, <1>5 DEF r

\* What is the last session the Mac has offered.
LEMMA LastOfferedIs ==
    ASSUME QueueTypes
    PROVE  LastOffered \in Nat /\ (offered => LastOffered = sid) /\ (~offered =>
             LastOffered = sid - 1)
BY DEF QueueTypes, LastOffered, Session

\* What a command is made of.
LEMMA CommandTypes ==
    /\ \A s \in Session, k \in {"offer", "ready"} : [kind |-> k, sid |-> s] \in Command
    /\ \A c \in Command : c.sid \in Session /\ (c.kind = "offer" \/ c.kind = "ready")
                         /\ ~(c.kind = "offer" /\ c.kind = "ready")
BY DEF Command

\* Between two steps of an offer's application it stays at the queue's head.
LEMMA QueueStep ==
    ASSUME Numbers, QueueTypes, OfferTypes, QueueInv, AcceptedInv, Next
    PROVE  QueueTypes' /\ OfferTypes' /\ QueueInv'
<1> USE DEF QueueInv
<1>0. /\ gen \in Nat /\ gen \in 0..Sessions /\ LastOffered \in Nat /\ cmds \in Seq(Command)
      /\ proven \in SUBSET Session /\ sid \in Session
  BY LastOfferedIs DEF QueueTypes, OfferTypes
<1>1. ASSUME cmds # <<>>
      PROVE  /\ Head(cmds) \in Command /\ Tail(cmds) \in Seq(Command)
             /\ Offers(Tail(cmds), gen, LastOffered)
             /\ Head(cmds).kind = "offer" =>
                  /\ gen < Head(cmds).sid /\ Head(cmds).sid \in Session
                  /\ Offers(Tail(cmds), Head(cmds).sid, LastOffered)
             /\ \A i \in DOMAIN Tail(cmds) :
                    Tail(cmds)[i].kind = "ready" => Tail(cmds)[i].sid \in proven
  <2>1. /\ Head(cmds) \in Command /\ Tail(cmds) \in Seq(Command)
        /\ \A i \in DOMAIN Tail(cmds) : i + 1 \in DOMAIN cmds /\ Tail(cmds)[i] = cmds[i + 1]
    BY <1>0, <1>1, HeadTailProperties, LenProperties
  <2> QED BY <1>0, <1>1, <2>1, OffersTail, CommandTypes DEF ReadyIsProven
<1>2. CASE OfferUnchanged /\ UNCHANGED macVars
  <2>1. cmds # <<>> /\ Head(cmds).kind = "offer" /\ Head(cmds).sid = offer /\ mainPc = "idle"
    BY <1>2 DEF OfferUnchanged, Idle
  <2>2. offer = gen /\ gen < Head(cmds).sid
    BY <1>1, <2>1 DEF Applying
  <2> QED BY <1>0, <2>1, <2>2
<1>3. CASE OfferClearsReady /\ UNCHANGED macVars
  <2>1. /\ UNCHANGED <<cmds, offer, gen, proven, sid, offered>> /\ mainPc = "idle" /\
             mainPc' = "store"
        /\ cmds # <<>> /\ Head(cmds).kind = "offer"
    BY <1>3 DEF OfferClearsReady, Idle, macVars
  <2> QED BY <2>1 DEF QueueTypes, OfferTypes, ReadyIsProven, Applying, LastOffered
<1>4. CASE OfferStored /\ UNCHANGED macVars
  <2>1. /\ UNCHANGED <<cmds, gen, proven, sid, offered>> /\ mainPc = "store" /\ mainPc' = "bump"
        /\ offer' = Head(cmds).sid
    BY <1>4 DEF OfferStored, macVars
  <2>2. cmds # <<>> /\ Head(cmds).kind = "offer" /\ Head(cmds).sid \in Session
    BY <1>1, <2>1 DEF Applying
  <2>3. offer' \in 0..Sessions
    BY <2>1, <2>2 DEF Session, Numbers
  <2> QED BY <2>1, <2>2, <2>3 DEF QueueTypes, OfferTypes, ReadyIsProven, Applying, LastOffered
<1>5. CASE OfferPublished /\ UNCHANGED macVars
  <2>1. /\ UNCHANGED <<offer, proven, sid, offered>> /\ mainPc = "bump" /\ mainPc' = "idle"
        /\ cmds' = Tail(cmds) /\ gen' = offer
    BY <1>5 DEF OfferPublished, macVars
  <2>2. cmds # <<>> /\ Head(cmds).kind = "offer" /\ offer = Head(cmds).sid
    BY <2>1 DEF Applying
  <2>3. gen' \in 0..Sessions
    BY <2>1, <2>2 DEF OfferTypes
  <2> QED BY <1>1, <2>1, <2>2, <2>3 DEF QueueTypes, OfferTypes, ReadyIsProven, Applying,
               LastOffered
<1>6. CASE MarkReceiverReady /\ UNCHANGED macVars
  <2>1. /\ UNCHANGED <<mainPc, offer, gen, proven, sid, offered>> /\ mainPc = "idle"
        /\ cmds' = Tail(cmds) /\ cmds # <<>> /\ Head(cmds).kind = "ready"
    BY <1>6 DEF MarkReceiverReady, Idle, mainVars, macVars
  <2> QED BY <1>1, <2>1 DEF QueueTypes, OfferTypes, ReadyIsProven, Applying, LastOffered
<1>7. ASSUME NEW c \in Command, cmds' = Append(cmds, c)
      PROVE  /\ cmds' \in Seq(Command) /\ cmds' # <<>>
             /\ \A i \in DOMAIN cmds' : (i \in DOMAIN cmds /\ cmds'[i] = cmds[i]) \/
                  cmds'[i] = c
             /\ cmds # <<>> => Head(cmds') = Head(cmds)
  BY <1>0, <1>7, AppendProperties, HeadTailProperties, LenProperties
<1>8. CASE OfferSession
  <2> DEFINE c == [kind |-> "offer", sid |-> sid]
  <2>1. /\ UNCHANGED <<mainPc, offer, gen, proven, sid>> /\ ~offered /\ offered' = TRUE
        /\ cmds' = Append(cmds, c) \/ UNCHANGED cmds
    BY <1>8 DEF OfferSession, Sends, mainVars
  <2>2. c \in Command /\ c.kind = "offer" /\ sid = LastOffered + 1
    <3>1. sid = LastOffered + 1
      BY <1>0, <2>1, LastOfferedIs DEF Session
    <3> QED BY <1>0, <3>1, CommandTypes
  <2>3. Offers(cmds', gen, LastOffered + 1)
    BY <1>0, <2>1, <2>2, OffersAppend
  <2>4. LastOffered' = LastOffered + 1
    BY <2>1, <2>2 DEF LastOffered
  <2> HIDE DEF c
  <2>5. ReadyIsProven'
    BY <1>7, <2>1, <2>2 DEF ReadyIsProven
  <2>6. Applying' /\ cmds' \in Seq(Command)
    BY <1>0, <1>7, <2>1, <2>2 DEF Applying
  <2> QED BY <1>0, <2>1, <2>3, <2>4, <2>5, <2>6 DEF QueueTypes, OfferTypes
<1>9. CASE StartReceiver /\ (offered \/ accepted)
  <2>1. /\ UNCHANGED <<cmds, mainPc, offer, gen, proven>> /\ offered /\ ~offered' /\
             sid' = sid + 1 /\ sid < Sessions
    BY <1>9 DEF StartReceiver, deviceVars, AcceptedInv
  <2>2. LastOffered' = LastOffered /\ sid' \in Session
    BY <1>0, <2>1 DEF LastOffered, Session, Numbers
  <2> QED BY <2>1, <2>2 DEF QueueTypes, OfferTypes, ReadyIsProven, Applying
<1>10. CASE Proof
  <2> DEFINE c == [kind |-> "ready", sid |-> sid]
  <2>1. /\ UNCHANGED <<mainPc, offer, gen, sid, offered>>
        /\ \/ UNCHANGED <<cmds, proven>>
           \/ proven' = proven \cup {sid} /\ (cmds' = Append(cmds, c) \/ UNCHANGED cmds)
    <3>1. UNCHANGED <<mainPc, offer, gen, sid, offered>>
      BY <1>10 DEF Proof, TransportProof, core0, mainVars
    <3>2. ProofArrives =>
            \/ UNCHANGED <<cmds, proven>>
            \/ proven' = proven \cup {sid} /\ (cmds' = Append(cmds, c) \/ UNCHANGED cmds)
      BY DEF ProofArrives, Sends
    <3> QED BY <1>10, <3>1, <3>2 DEF Proof
  <2>2. LastOffered' = LastOffered
    BY <2>1 DEF LastOffered
  <2>3. CASE UNCHANGED <<cmds, proven>>
    BY <2>1, <2>2, <2>3 DEF QueueTypes, OfferTypes, ReadyIsProven, Applying
  <2>4. CASE proven' = proven \cup {sid} /\ cmds' = Append(cmds, c)
    <3>1. c \in Command /\ c.kind = "ready" /\ c.sid = sid
      BY <1>0, CommandTypes
    <3>2. Offers(cmds', gen, LastOffered)
      BY <1>0, <2>4, <3>1, OffersAppend
    <3> HIDE DEF c
    <3>3. ReadyIsProven'
      BY <1>7, <2>4, <3>1 DEF ReadyIsProven
    <3>4. Applying'
      BY <1>7, <2>1, <2>4, <3>1 DEF Applying
    <3> QED BY <1>0, <1>7, <2>1, <2>2, <2>4, <3>1, <3>2, <3>3, <3>4 DEF QueueTypes, OfferTypes
  <2>5. CASE proven' = proven \cup {sid} /\ UNCHANGED cmds
    BY <1>0, <2>1, <2>2, <2>5 DEF QueueTypes, OfferTypes, ReadyIsProven, Applying
  <2> QED BY <2>1, <2>3, <2>4, <2>5
<1>11. CASE UNCHANGED <<cmds, mainVars, proven, sid, offered>>
  BY <1>11 DEF QueueTypes, OfferTypes, ReadyIsProven, Applying, LastOffered, mainVars
<1>12. CASE Refused
  <2>1. /\ UNCHANGED <<offer, gen, proven, sid, offered>> /\ mainPc # "bump"
        /\ mainPc' = "idle" /\ cmds' = Tail(cmds)
    BY <1>12 DEF Refused, MainRefuses, OfferRefused, MarkRefused, Idle, mainVars
  <2>2. cmds # <<>>
    BY <1>12 DEF Refused, MainRefuses, OfferRefused, MarkRefused, Idle, Applying
  <2> QED BY <1>1, <2>1, <2>2 DEF QueueTypes, OfferTypes, ReadyIsProven, Applying, LastOffered
<1> QED BY <1>2, <1>3, <1>4, <1>5, <1>6, <1>8, <1>9, <1>10, <1>11, <1>12, Writers

\* Sessions are only ever published in order, and copied after they were.
LEMMA Rising ==
    ASSUME Numbers, QueueTypes, OfferTypes, QueueInv, Next
    PROVE  /\ gen \in Nat /\ offer \in Nat /\ gen' \in Nat /\ offer' \in Nat
           /\ gen <= gen' /\ offer <= offer' /\ gen <= offer
           /\ mainPc = "idle" => offer = gen
<1>1. gen \in Nat /\ offer \in Nat /\ (mainPc # "bump" => offer = gen)
  BY DEF OfferTypes, QueueInv, Applying
<1>2. cmds # <<>> /\ Head(cmds).kind = "offer" =>
        gen < Head(cmds).sid /\ Head(cmds).sid \in Nat
  BY <1>1, OffersTail, LastOfferedIs, CommandTypes, HeadTailProperties
  DEF QueueTypes, QueueInv, Session
<1>3. gen <= offer
  BY <1>1, <1>2 DEF OfferTypes, QueueInv, Applying
<1>4. CASE OfferClearsReady \/ OfferRefused \/ UNCHANGED mainVars
  BY <1>1, <1>3, <1>4 DEF OfferClearsReady, OfferRefused, mainVars
<1>5. CASE OfferStored
  <2>1. cmds # <<>> /\ Head(cmds).kind = "offer" /\ offer' = Head(cmds).sid /\ gen' = gen /\
          mainPc = "store"
    BY <1>5 DEF OfferStored, QueueInv, Applying
  <2> QED BY <1>1, <1>2, <1>3, <2>1
<1>6. CASE OfferPublished
  BY <1>1, <1>3, <1>6 DEF OfferPublished
<1> QED BY <1>1, <1>3, <1>4, <1>5, <1>6, Writers

\* Transport's copies are numbers.
LEMMA LocalFields ==
    ASSUME Numbers, LocalTypes
    PROVE  t.gen \in Nat /\ t.offer \in Nat /\ t.socket \in Nat /\ t.activeGen \in Nat
BY DEF Numbers, LocalTypes, Locals

\* What each step of transport does to its copies.
LEMMA Moves ==
    ASSUME Numbers, LocalTypes, Next
    PROVE  \/ /\ TransportTop /\ t'.gen = gen
              /\ t'.offer = t.offer /\ t'.socket \in {0, t.socket}
              /\ pc' \in {"offer", "wait"}
           \/ /\ TransportOffer /\ t'.gen = t.gen /\ t'.activeGen = t.gen
              /\ t'.offer = offer /\ t'.socket \in {0, t.socket}
              /\ pc = "offer" /\ pc' = "connect"
           \/ /\ Connect /\ t'.gen = t.gen /\ t'.activeGen = t.activeGen
              /\ t'.offer = t.offer /\ t'.socket = t.offer /\ t'.due
              /\ pc = "connect" /\ pc' = "ready"
           \/ /\ t'.gen = t.gen /\ t'.activeGen = t.activeGen
              /\ t'.offer = t.offer /\ t'.socket \in {0, t.socket}
              /\ \/ pc' = pc /\ t'.socket = t.socket /\ (t.due => t'.due)
                 \/ pc = "connect" /\ pc' = "retry"
                 \/ pc = "ready" /\ ~ready /\ ~t.due /\ pc' = "wait"
                 \/ pc = "connect" /\ ~ready /\ pc' = "wait"
                 \/ TransportReady /\ ready /\ pc \in {"ready", "connect"} /\ pc' = "pop" /\
                      t' = t
                 \/ /\ TransportReady /\ ~ready /\ pc \in {"ready", "connect"} /\ pc' = "proof"
                    /\ burst' = NoProofs /\ t' = t
                 \/ TransportProved /\ pc = "proof" /\ DelayOver /\ pc' = "wait"
                 \/ pc = "pop" /\ pc' \in {"wait", "send", "end"}
                 \/ pc = "send" /\ pc' = "top"
                 \/ pc = "end" /\ pc' = "wait"
<1> USE DEF LocalTypes, Locals, ForgetRecording
<1>1. CASE TransportTop
  BY <1>1 DEF TransportTop
<1>2. CASE TransportOffer
  BY <1>2 DEF TransportOffer
<1>3. CASE ConnectFails
  BY <1>3 DEF ConnectFails
<1>4. CASE TransportReady
  BY <1>4 DEF TransportReady
<1>5. CASE TransportProved
  BY <1>5 DEF TransportProved
<1>6. CASE TransportPops
  BY <1>6 DEF TransportPops
<1>7. CASE TransportEnds \/ TransportEnded
  BY <1>7 DEF TransportEnds, TransportEnded
<1>8. CASE ProofRetryDue
  BY <1>8 DEF ProofRetryDue
<1>9. CASE Connect
  BY <1>9 DEF Connect, TransportConnects
<1>10. CASE Live
  BY <1>10 DEF Live, TransportSends
<1>11. CASE UNCHANGED <<pc, t>>
  BY <1>11
<1> QED BY <1>1, <1>2, <1>3, <1>4, <1>5, <1>6, <1>7, <1>8, <1>9, <1>10, <1>11, Writers
       DEF TransportSilent

\* What transport copied stays behind what the main task has stored.
LEMMA CopiesStep ==
    ASSUME Numbers, Types, QueueInv, Copies, Next
    PROVE  Copies'
<1>1. /\ gen \in Nat /\ offer \in Nat /\ gen' \in Nat /\ offer' \in Nat
      /\ gen <= gen' /\ offer <= offer' /\ gen <= offer
  BY Rising DEF Types
<1>2. t.gen \in Nat /\ t.offer \in Nat /\ t.socket \in Nat /\ t.activeGen \in Nat
  BY LocalFields DEF Types
<1> QED BY <1>1, <1>2, Moves DEF Types, Copies, InTurn

\* The Mac has seen proofs of a session only once the session was published.
LEMMA ProvenStep ==
    ASSUME Numbers, Types, QueueInv, Copies, ProvenInv, SocketPublished, Next
    PROVE  ProvenInv'
<1>1. /\ gen \in Nat /\ offer \in Nat /\ gen' \in Nat /\ offer' \in Nat
      /\ gen <= gen' /\ offer <= offer' /\ gen <= offer
  BY Rising DEF Types
<1>2. t.gen \in Nat /\ t.offer \in Nat /\ t.socket \in Nat /\ t.activeGen \in Nat /\
        candidate \in Nat /\ burst.n \in Nat
  BY LocalFields DEF Types, BurstTypes, Numbers
<1>3. \A s \in proven : s \in Nat
  BY DEF Types, QueueTypes, Session
<1>4. CASE Proof
  <2>1. pc = "proof" /\ UNCHANGED <<pc, t, gen>>
    BY <1>4 DEF Proof, TransportProof, core0, mainVars
  <2>2. proven' = proven \/ (proven' = proven \cup {sid} /\ t.socket = sid /\ candidate >= 2)
    BY <1>2, <1>4 DEF Proof, ProofArrives, Run
  <2>3. candidate >= 2 => t.socket <= gen /\ t.socket <= t.offer
    BY <1>1, <1>2, <2>1 DEF SocketPublished, Copies
  <2> QED BY <2>1, <2>2, <2>3 DEF ProvenInv, InTurn
<1>5. CASE UNCHANGED proven
  <2>1. \A s \in proven : s <= gen' /\ s <= t'.offer
    BY <1>1, <1>2, <1>3, Moves DEF Types, Copies, ProvenInv
  <2>2. (InTurn' /\ pc' # "proof") \/ pc' = "offer" => \A s \in proven : s <= t'.gen
    BY <1>1, <1>2, <1>3, Moves DEF Types, Copies, ProvenInv, InTurn
  <2> QED BY <1>5, <2>1, <2>2 DEF ProvenInv
<1> QED BY <1>4, <1>5, Writers

\* Only an audio_ready of the current offer makes the receiver ready, and the Mac
\* sent it for a session it had validated.
LEMMA ReadyStep ==
    ASSUME Numbers, Types, QueueInv, ReadyInv, Next
    PROVE  ReadyInv'
<1>1. CASE UNCHANGED mainVars /\ (ready' => ready)
  <2>1. proven \subseteq proven'
    BY Writers DEF Proof, ProofArrives
  <2> QED BY <1>1, <2>1 DEF ReadyInv, mainVars
<1>2. CASE OfferClearsReady
  BY <1>2 DEF OfferClearsReady, ReadyInv
<1>3. CASE OfferStored \/ OfferPublished \/ OfferRefused
  BY <1>3 DEF OfferStored, OfferPublished, OfferRefused, ReadyInv
<1>4. CASE MarkReceiverReady
  <2>1. proven \subseteq proven'
    BY Writers DEF Proof, ProofArrives
  <2>2. cmds # <<>> /\ Head(cmds).kind = "ready" /\ mainPc = "idle" /\ UNCHANGED <<mainPc,
          offer>>
    BY <1>4 DEF MarkReceiverReady, Idle, mainVars
  <2>3. Head(cmds).sid \in proven
    BY <2>2, HeadTailProperties, LenProperties DEF QueueInv, ReadyIsProven, Types, QueueTypes
  <2> QED BY <1>4, <2>1, <2>2, <2>3 DEF MarkReceiverReady, MarksCurrent, ReadyInv, mainVars
<1>5. CASE Disconnected \/ TransportTop \/ TransportOffer \/ Connect
  BY <1>1, <1>5 DEF Disconnected, TransportTop, TransportOffer, Connect, TransportConnects,
       core0ButReady
<1> QED BY <1>1, <1>2, <1>3, <1>4, <1>5, Writers

\* A ready receiver is that of the session transport has copied.
LEMMA ReadyMeansCurrent ==
    ASSUME Numbers, Types, QueueInv, Copies, ProvenInv, ReadyInv, Next, ready
    PROVE  gen = offer /\ t.offer = offer
<1>1. /\ gen \in Nat /\ offer \in Nat /\ gen <= offer /\ (mainPc = "idle" => offer = gen)
  BY Rising DEF Types
<1>2. t.offer \in Nat
  BY LocalFields DEF Types
<1> QED BY <1>1, <1>2 DEF ReadyInv, ProvenInv, Copies

\* Every new socket owes a burst of proofs.
LEMMA DueStep ==
    ASSUME Numbers, Types, DueInv, Next
    PROVE  DueInv'
BY Moves DEF Types, DueInv

\* A socket opened between the two stores of an offer sends one proof at most before
\* the offer is published: the delay after it outlasts device_audio_apply_offer.
LEMMA SocketStep ==
    ASSUME Numbers, Types, QueueInv, Copies, ProvenInv, ReadyInv, SocketPublished, DueInv, Next
    PROVE  SocketPublished'
<1>1. /\ gen \in Nat /\ offer \in Nat /\ gen' \in Nat /\ gen <= gen' /\ gen <= offer /\
           (mainPc = "idle" => offer = gen)
  BY Rising DEF Types
<1>2. t.gen \in Nat /\ t.offer \in Nat /\ t.socket \in Nat /\ candidate \in Nat /\
        burst.n \in Nat
  BY LocalFields DEF Types, BurstTypes, Numbers
<1>3. ASSUME t.socket <= gen, t'.socket \in {0, t.socket} PROVE SocketPublished'
  BY <1>1, <1>2, <1>3 DEF SocketPublished
<1>4. CASE t.socket <= gen /\ ~Connect
  BY <1>3, <1>4, <1>2, Moves DEF Types
<1>5. CASE Connect
  BY <1>5 DEF Connect, TransportConnects, SocketPublished
<1>6. CASE ~(t.socket <= gen) /\ Proof
  <2>1. /\ pc = "proof" /\ burst.n <= 1 /\ candidate <= burst.n /\ burst'.n = burst.n + 1
        /\ UNCHANGED <<pc, t>> /\ (burst.n = 0 \/ mainPc = "idle")
    BY <1>6 DEF SocketPublished, Proof, TransportProof, DelayOver
  <2>2. burst.n # 0 => t.socket <= gen
    BY <1>1, <1>2, <2>1 DEF Copies
  <2>3. burst.n = 0 /\ candidate = 0
    BY <1>2, <1>6, <2>1, <2>2
  <2>4. candidate' <= 1
    BY <1>6, <2>3 DEF Proof, ProofArrives, Run
  <2> QED BY <2>1, <2>3, <2>4 DEF SocketPublished
<1>7. CASE ~(t.socket <= gen) /\ ~Proof /\ ~Connect
  <2>1. pc \in {"ready", "proof"} /\ (pc = "ready" => candidate = 0) /\ (pc = "proof" =>
          burst.n <= 1 /\ candidate <= burst.n)
    BY <1>7 DEF SocketPublished
  <2>2. candidate' \in {0, candidate}
    BY <1>7, Writers DEF Live, StartReceiver
  <2>3. burst'.n = burst.n \/ TransportReady \/ TransportProved
    BY <1>7, Writers DEF MarkReceiverReady, Types, BurstTypes
  <2>4. CASE TransportProved
    BY <1>1, <1>2, <1>7, <2>4 DEF TransportProved, DelayOver, Copies
  <2>5. CASE TransportReady
    <3>1. pc = "ready" /\ t.due /\ candidate = 0
      BY <2>1, <2>5 DEF TransportReady, DueInv
    <3>2. ~ready
      BY <1>1, <1>2, <1>7, ReadyMeansCurrent DEF Copies
    <3>3. pc' = "proof" /\ burst' = NoProofs /\ candidate' = 0
      BY <2>2, <2>5, <3>1, <3>2 DEF TransportReady
    <3> QED BY <3>3 DEF SocketPublished, NoProofs
  <2>6. CASE burst'.n = burst.n /\ pc' = pc
    BY <1>2, <2>1, <2>2, <2>6 DEF SocketPublished
  <2>7. CASE burst'.n = burst.n /\ pc' # pc
    <3>1. TransportReady \/ TransportProved
      BY <1>7, <2>1, <2>7, Moves DEF Types, TransportTop, DueInv
    <3> QED BY <2>4, <2>5, <3>1
  <2> QED BY <2>3, <2>4, <2>5, <2>6, <2>7
<1> QED BY <1>4, <1>5, <1>6, <1>7

\* Live audio is accepted only for a session that was offered.
LEMMA AcceptedStep ==
    ASSUME Numbers, Types, QueueInv, Copies, AcceptedInv, Next
    PROVE  AcceptedInv'
<1>1. CASE Live
  <2>1. UNCHANGED <<sid, offered>> /\ (accepted' => accepted \/ t.socket = sid)
    BY <1>1 DEF Live
  <2>2. gen \in Nat /\ offer \in Nat
    BY Rising DEF Types
  <2>3. LastOffered \in Nat /\ sid \in Nat
    BY LastOfferedIs DEF Types, QueueTypes, Session
  <2>4. t.offer \in Nat /\ t.socket \in Nat
    BY LocalFields DEF Types
  <2>5. offer <= LastOffered
    <3>1. CASE mainPc = "bump"
      <4>1. cmds # <<>> /\ Head(cmds).kind = "offer" /\ Head(cmds).sid = offer
        BY <3>1 DEF QueueInv, Applying
      <4> QED BY <4>1, HeadTailProperties, LenProperties DEF QueueInv, Offers, Types, QueueTypes
    <3>2. CASE mainPc # "bump"
      BY <3>2 DEF QueueInv, Applying, Offers
    <3> QED BY <3>1, <3>2
  <2>6. t.socket = sid => offered
    BY <2>2, <2>3, <2>4, <2>5 DEF LastOffered, Copies
  <2> QED BY <2>1, <2>6 DEF AcceptedInv
<1>2. CASE StartReceiver
  BY <1>2 DEF StartReceiver, AcceptedInv
<1>3. CASE OfferSession
  BY <1>3 DEF OfferSession, AcceptedInv
<1>4. CASE UNCHANGED <<accepted, sid, offered>>
  BY <1>4 DEF AcceptedInv
<1> QED BY <1>1, <1>2, <1>3, <1>4, Writers

\* A burst nothing interrupts loses at most one number, and early.
LEMMA BurstInvStep ==
    ASSUME Numbers, Types, BurstInv, Next
    PROVE  BurstInv'
<1>1. burst.n \in Nat /\ burst.run \in Nat /\ burst.run <= burst.n /\ burst.quiet \in BOOLEAN
  BY DEF Types, BurstTypes, Numbers
<1>2. CASE Proof
  <2>1. PICK lost \in {0, 1} : TransportProof(lost)
    BY <1>2 DEF Proof
  <2>2. /\ pc = "proof" /\ UNCHANGED <<pc, capPc, ready>> /\ gap' = FALSE
        /\ burst.n # 0 => capPc # "number" /\ capPc # "push"
    BY <2>1 DEF TransportProof, core0, captureVars, DelayOver
  <2>3. /\ burst'.n = burst.n + 1 /\ burst'.quiet = burst.quiet
        /\ burst'.run = IF gap THEN 1 ELSE burst.run + 1
    BY <2>1 DEF TransportProof
  <2>4. capPc \in {"idle", "record", "number", "push"}
    BY DEF Types, RingTypes
  <2> QED BY <1>1, <2>2, <2>3, <2>4 DEF BurstInv
<1>3. CASE TransportReady
  <2>1. pc' = "proof" => burst' = NoProofs /\ ~ready /\ UNCHANGED ready
    BY <1>3 DEF TransportReady, core0
  <2> QED BY <2>1 DEF BurstInv, NoProofs
<1>4. CASE MarkReceiverReady
  <2>1. /\ UNCHANGED <<pc, capPc, gap>>
        /\ burst'.n = burst.n /\ burst'.run = burst.run
        /\ burst'.quiet = (burst.quiet /\ ~(pc = "proof" /\ ready'))
    BY <1>4 DEF MarkReceiverReady, captureVars, Types, BurstTypes
  <2> QED BY <1>1, <2>1 DEF BurstInv
<1>5. CASE CaptureTask
  <2>1. /\ UNCHANGED <<pc, ready, burst>>
        /\ \/ UNCHANGED gap /\ (ready \/ capPc' \notin {"number", "push"})
           \/ capPc \in {"number", "push"}
    BY <1>5 DEF CaptureTask, CaptureBegins, CaptureCompletes, CaptureNumbers, CapturePushes,
         ShouldCapture,
         core0, wireVars
  <2> QED BY <1>1, <2>1 DEF BurstInv
<1>6. CASE ~Proof /\ ~TransportReady /\ ~MarkReceiverReady /\ ~CaptureTask
  <2>1. UNCHANGED capPc
    BY <1>6, Writers DEF captureVars
  <2>2. CASE pc' = "proof"
    <3>1. pc = "proof" /\ ~TransportProved /\ ~TransportEnds
      BY <1>6, <2>2, Moves DEF Types, TransportEnds, TransportProved
    <3>2. UNCHANGED burst
      BY <1>6, <3>1, Writers
    <3>3. UNCHANGED gap
      BY <1>6, <3>1, Writers DEF CaptureTask
    <3>4. ready' => ready
      BY <1>6, Writers DEF OfferClearsReady, Disconnected, TransportTop, TransportOffer,
           Connect, TransportConnects
    <3> QED BY <2>1, <3>1, <3>2, <3>3, <3>4 DEF BurstInv
  <2> QED BY <2>2 DEF BurstInv
<1> QED BY <1>2, <1>3, <1>4, <1>5, <1>6

\* The invariant holds when the device and the app start.
LEMMA SessionStart ==
    ASSUME Numbers, Init
    PROVE  IInv
<1> USE DEF Init, DeviceInit, Numbers
<1>1. cmds = <<>> /\ proven = {} /\ sid \in Session /\ cmds \in Seq(Command) /\ LastOffered = 0
  BY EmptySeq DEF Session, LastOffered
<1>2. QueueTypes /\ OfferTypes
  BY <1>1 DEF QueueTypes, OfferTypes
<1>3. SwitchTypes
  BY DEF SwitchTypes
<1>4. WifiTypes
  BY DEF WifiTypes
<1>5. t \in Locals
  BY DEF Locals
<1>6. LocalTypes
  BY <1>5 DEF LocalTypes
<1>7. RingTypes
  BY EmptySeq DEF RingTypes
<1>8. burst \in [n : 0..TestPackets, run : 0..TestPackets, best : 0..TestPackets,
                 quiet : BOOLEAN, lost : 0..Losses]
  BY DEF NoProofs
<1>9. BurstTypes
  BY <1>8 DEF BurstTypes, NoProofs
<1>10. QueueInv
  BY <1>1 DEF QueueInv, Offers, ReadyIsProven, Applying, Session
<1>11. Copies /\ SocketPublished
  BY DEF Copies, InTurn, SocketPublished
<1>12. ProvenInv /\ ReadyInv /\ AcceptedInv /\ DueInv /\ BurstInv
  BY DEF ProvenInv, ReadyInv, AcceptedInv, DueInv, BurstInv
<1> QED BY <1>2, <1>3, <1>4, <1>6, <1>7, <1>9, <1>10, <1>11, <1>12 DEF IInv, Types

\* Every step keeps the invariant.
LEMMA SessionStep ==
    ASSUME Numbers, IInv, Next
    PROVE  IInv'
<1>1. Types /\ QueueInv /\ Copies /\ ProvenInv /\ SocketPublished /\ ReadyInv /\ AcceptedInv /\
        DueInv /\ BurstInv
  BY DEF IInv
<1>2. OfferTypes' /\ QueueTypes' /\ QueueInv'
  BY <1>1, QueueStep DEF Types
<1>3. SwitchTypes' /\ WifiTypes' /\ RingTypes' /\ BurstTypes'
  BY <1>1, SwitchStep, WifiStep, RingStep, BurstStep DEF Types
<1>4. LocalTypes'
  BY <1>1, LocalStep DEF Types
<1>5. Copies' /\ ProvenInv' /\ SocketPublished'
  BY <1>1, CopiesStep, ProvenStep, SocketStep
<1>6. ReadyInv' /\ AcceptedInv'
  BY <1>1, ReadyStep, AcceptedStep
<1>7. DueInv' /\ BurstInv'
  BY <1>1, DueStep, BurstInvStep
<1> QED BY <1>2, <1>3, <1>4, <1>5, <1>6, <1>7 DEF IInv, Types

\* So does a step of somebody else.
LEMMA SessionStutter ==
    ASSUME IInv, UNCHANGED vars
    PROVE  IInv'
<1> USE DEF vars, deviceVars, macVars
<1>1. Types'
  BY DEF IInv, Types, QueueTypes, OfferTypes, SwitchTypes, WifiTypes, LocalTypes, RingTypes,
       BurstTypes
<1>2. QueueInv'
  BY DEF IInv, QueueInv, ReadyIsProven, Applying, LastOffered
<1>3. Copies' /\ ProvenInv' /\ SocketPublished' /\ ReadyInv' /\ AcceptedInv' /\ DueInv' /\
        BurstInv'
  BY DEF IInv, Copies, InTurn, ProvenInv, SocketPublished, ReadyInv, AcceptedInv, DueInv,
       BurstInv
<1> QED BY <1>1, <1>2, <1>3 DEF IInv

\* A frame of the generation transport works for belongs to the offer it copied.
LEMMA SoundIsOfTheOffer ==
    ASSUME Numbers, IInv
    PROVE  LiveUnderOwnSession
<1> SUFFICES ASSUME SendsLive PROVE t.offer = t.frame
  BY DEF LiveUnderOwnSession
<1>1. t.gen \in Nat /\ t.offer \in Nat /\ t.activeGen \in Nat /\ offer \in Nat
  BY LocalFields DEF IInv, Types, OfferTypes, Numbers
<1>2. offer \in proven /\ t.activeGen = t.gen /\ t.frame = t.activeGen /\ t.gen <= t.offer /\
        t.offer <= offer
  BY DEF SendsLive, FrameIsCurrent, IInv, ReadyInv, Copies, InTurn
<1>3. offer <= t.gen
  BY <1>2 DEF SendsLive, IInv, ProvenInv, InTurn
<1> QED BY <1>1, <1>2, <1>3

\* The invariant implies what the run checks.
LEMMA HandshakeIsSound ==
    ASSUME Numbers, IInv
    PROVE  SessionInvariant
<1>1. TypeOK
  BY TypesAreRight DEF IInv
<1>2. BurstIsEnough
  BY DEF BurstIsEnough, IInv, BurstInv, Types, BurstTypes, Numbers
<1>3. ReadyMeansProven
  BY DEF ReadyMeansProven, IInv, ReadyInv
<1> QED BY <1>1, <1>2, <1>3 DEF SessionInvariant

-----------------------------------------------------------------------------
\* The inductive invariant holds in every reachable state: however late commands,
\* Wi-Fi events and the steps of the four tasks fall.
THEOREM SessionInvariance == Spec => []IInv
<1>1. Init => IInv
  BY NumbersHold, SessionStart
<1>2. IInv /\ [Next]_vars => IInv'
  BY NumbersHold, SessionStep, SessionStutter
<1> QED BY <1>1, <1>2, PTL DEF Spec

\* The receiver counts as ready only for a session whose proofs the Mac has
\* validated (device_audio_mark_receiver_ready against validateCandidate), and
\* a burst that nothing interrupts holds the three proofs in a row it asks for
\* (send_session_proofs), although capture may take a number in the middle.
THEOREM HandshakeLeavesNothingToChance == Spec => []SessionInvariant
<1>1. IInv => SessionInvariant
  BY NumbersHold, HandshakeIsSound
<1> QED BY <1>1, SessionInvariance, PTL

\* A frame is sent under the offer it was captured for, although the offer is
\* replaced while audio_transport_task holds the frame.
THEOREM SoundGoesUnderItsOffer == Spec => []LiveUnderOwnSession
<1>1. IInv => LiveUnderOwnSession
  BY NumbersHold, SoundIsOfTheOffer
<1> QED BY <1>1, SessionInvariance, PTL

-----------------------------------------------------------------------------
(***************************************************************************)
(* The jitter buffer.  What it has released and what it still holds are one *)
(* sequence; a push continues it, up to the deadline, and the deadline      *)
(* passes nothing that has arrived.                                         *)
(***************************************************************************)

\* How many of S are up to n.
Rank(S, n) == Cardinality({m \in S : m <= n})

\* The ranks of a finite set of numbers are 1 up to its size, one each.
LEMMA Ranks ==
    ASSUME NEW S \in SUBSET Nat, IsFiniteSet(S)
    PROVE  /\ Cardinality(S) \in Nat
           /\ \A n \in S : Rank(S, n) \in 1..Cardinality(S)
           /\ \A n, k \in S : n < k => Rank(S, n) < Rank(S, k)
           /\ \A i \in 1..Cardinality(S) : \E n \in S : Rank(S, n) = i
<1>0. Cardinality(S) \in Nat
  BY FS_CardinalityType
<1>1. ASSUME NEW n \in S
      PROVE  /\ IsFiniteSet({m \in S : m <= n}) /\ Rank(S, n) \in Nat
             /\ 0 < Rank(S, n) /\ Rank(S, n) <= Cardinality(S)
  <2> DEFINE U == {m \in S : m <= n}
  <2>1. U \in SUBSET S /\ n \in U
    OBVIOUS
  <2>2. IsFiniteSet(U) /\ Cardinality(U) <= Cardinality(S)
    BY <2>1, FS_Subset
  <2>3. Cardinality(U) \in Nat /\ Cardinality(U) # 0
    BY <2>1, <2>2, FS_CardinalityType, FS_EmptySet
  <2> QED BY <2>2, <2>3 DEF Rank
<1>4. ASSUME NEW n \in S PROVE Rank(S, n) \in 1..Cardinality(S)
  <2>1. Rank(S, n) \in Nat /\ 0 < Rank(S, n) /\ Rank(S, n) <= Cardinality(S)
    BY <1>1
  <2> HIDE DEF Rank
  <2> QED BY <1>0, <2>1
<1>2. ASSUME NEW n \in S, NEW k \in S, n < k PROVE Rank(S, n) < Rank(S, k)
  <2> DEFINE U == {m \in S : m <= n}
             V == {m \in S : m <= k}
  <2>1. n \in Nat /\ k \in Nat
    OBVIOUS
  <2>2. U \in SUBSET V /\ k \in V /\ k \notin U
    <3>1. ASSUME NEW m \in U PROVE m \in V
      <4>1. m \in Nat /\ m \in S /\ m <= n
        OBVIOUS
      <4> QED BY <1>2, <2>1, <4>1
    <3>2. k \in V /\ k \notin U
      BY <1>2, <2>1
    <3> QED BY <3>1, <3>2
  <2>3. IsFiniteSet(V)
    BY <1>1
  <2>4. Cardinality(U) <= Cardinality(V) /\ Cardinality(V) # Cardinality(U)
    BY <2>2, <2>3, FS_Subset
  <2> QED BY <1>1, <2>4 DEF Rank
<1>3. ASSUME NEW i \in 1..Cardinality(S) PROVE \E n \in S : Rank(S, n) = i
  <2> DEFINE T == 1..Cardinality(S)
             f == [n \in S |-> Rank(S, n)]
  <2>1. f \in [S -> T]
    BY <1>4
  <2>2. \A n, k \in S : f[n] = f[k] => n = k
    <3>1. ASSUME NEW n \in S, NEW k \in S, n # k PROVE f[n] # f[k]
      <4>1. n \in Nat /\ k \in Nat /\ f[n] \in Nat /\ f[k] \in Nat
        BY <1>1
      <4>2. n < k \/ k < n
        BY <3>1, <4>1
      <4> QED BY <1>2, <4>1, <4>2
    <3> QED BY <3>1
  <2>3. f \in Injection(S, T)
    BY <2>1, <2>2 DEF Injection, IsInjective
  <2>4. IsFiniteSet(T) /\ Cardinality(T) = Cardinality(S)
    BY <1>0, FS_Interval
  <2>5. f \in Surjection(S, T)
    BY <2>3, <2>4, FS_Injection
  <2> QED BY <2>5 DEF Surjection
<1> QED BY <1>0, <1>2, <1>3, <1>4

\* One frame for each number of S, in order; the real ones are those of b.
Sorted(q, S, b) ==
    /\ q \in Seq([seq : S, real : BOOLEAN])
    /\ \A i \in DOMAIN q : q[i].seq \in S /\ q[i].real = (q[i].seq \in b.pending)
    /\ \A n \in S : \E i \in DOMAIN q : q[i].seq = n
    /\ \A i, j \in DOMAIN q : i < j => q[i].seq < q[j].seq

\* InOrder lists the numbers, whatever they are (push and finish).
LEMMA Ordered ==
    ASSUME NEW b, NEW S \in SUBSET Nat, IsFiniteSet(S), NEW q, q = InOrder(b, S)
    PROVE  Sorted(q, S, b)
<1> DEFINE c == Cardinality(S)
<1>1. c \in Nat
  BY Ranks
<1>2. \A i \in 1..c : Nth(S, i) \in S /\ Rank(S, Nth(S, i)) = i
  BY Ranks DEF Nth, Rank
<1>3. q = [i \in 1..c |-> Frame(Nth(S, i), Nth(S, i) \in b.pending)]
  BY DEF InOrder
<1>4. \A n \in S : Rank(S, n) \in 1..c /\ Nth(S, Rank(S, n)) = n
  <2>1. ASSUME NEW n \in S PROVE Rank(S, n) \in 1..c /\ Nth(S, Rank(S, n)) = n
    <3> DEFINE k == Nth(S, Rank(S, n))
    <3>1. Rank(S, n) \in 1..c
      BY Ranks
    <3>2. k \in S /\ Rank(S, k) = Rank(S, n)
      BY <1>2, <3>1
    <3> HIDE DEF k, c
    <3>3. k \in Nat /\ n \in Nat
      BY <3>2
    <3>4. k = n
      <4>1. ~(k < n) /\ ~(n < k)
        BY <3>1, <3>2, <1>1, Ranks DEF c
      <4> QED BY <3>3, <4>1
    <3> QED BY <3>1, <3>4 DEF k
  <2> QED BY <2>1
<1> HIDE DEF c
<1>5. DOMAIN q = 1..c /\ \A i \in 1..c : q[i] = Frame(Nth(S, i), Nth(S, i) \in b.pending)
  BY <1>3
<1>6. \A i \in 1..c : q[i] \in [seq : S, real : BOOLEAN] /\ q[i].seq = Nth(S, i) /\
        q[i].real = (q[i].seq \in b.pending)
  <2>1. ASSUME NEW i \in 1..c PROVE q[i] \in [seq : S, real : BOOLEAN] /\ q[i].seq = Nth(S,
                 i) /\ q[i].real = (q[i].seq \in b.pending)
    <3>1. Nth(S, i) \in S /\ (Nth(S, i) \in b.pending) \in BOOLEAN
      BY <1>2
    <3>2. q[i] = [seq |-> Nth(S, i), real |-> Nth(S, i) \in b.pending]
      BY <1>5 DEF Frame
    <3> QED BY <3>1, <3>2
  <2> QED BY <2>1
<1>7. q \in Seq([seq : S, real : BOOLEAN])
  <2> DEFINE F == [seq : S, real : BOOLEAN]
  <2>0. \A i \in 1..c : q[i] \in F
    BY <1>6
  <2>2. \A i \in 1..c : Frame(Nth(S, i), Nth(S, i) \in b.pending) \in F
    BY <1>5, <2>0
  <2> HIDE DEF F
  <2>1. q \in [1..c -> F]
    BY <1>3, <2>2
  <2>3. q \in Seq(F)
    BY <1>1, <2>1, SeqDef
  <2> QED BY <2>3 DEF F
<1>9. \A i, j \in DOMAIN q : i < j => q[i].seq < q[j].seq
  <2>1. ASSUME NEW i \in 1..c, NEW j \in 1..c, i < j PROVE Nth(S, i) < Nth(S, j)
    <3>1. Nth(S, i) \in Nat /\ Nth(S, j) \in Nat /\ Nth(S, i) \in S /\ Nth(S, j) \in S /\
            Rank(S, Nth(S, i)) = i /\ Rank(S, Nth(S, j)) = j
      BY <1>2
    <3>2. ~(Nth(S, j) < Nth(S, i)) /\ Nth(S, j) # Nth(S, i)
      <4>1. Nth(S, j) < Nth(S, i) => j < i
        BY <3>1, Ranks
      <4> QED BY <1>1, <2>1, <3>1, <4>1
    <3> QED BY <3>1, <3>2
  <2> QED BY <1>5, <1>6, <2>1
<1> QED BY <1>4, <1>5, <1>6, <1>7, <1>9 DEF Sorted

Depths == ReorderDepth \in Nat /\ ReorderDepth > 0 /\ ConcealedGap \in Nat /\
  StartupFrames \in Nat /\ StartupFrames > 0

\* The depths of the buffer, as the proofs use them.
LEMMA DepthsHold == Depths
BY JitterAssumption DEF JitterAssumption, Depths

\* A buffer that has started: next is behind all that waits, highest waits.
Window(b) ==
    /\ b.next \in Nat /\ b.highest \in b.pending /\ b.next <= b.highest
    /\ \A n \in b.pending : n \in Nat /\ b.next <= n /\ n <= b.highest

\* GapEnd is the first frame that has arrived at or after a number.
LEMMA GapEnds ==
    ASSUME NEW b, Window(b), NEW n \in Nat, n <= b.highest
    PROVE  /\ GapEnd(b, n) \in b.pending /\ n <= GapEnd(b, n)
           /\ \A k \in b.pending : n <= k => GapEnd(b, n) <= k
<1> DEFINE S == {m \in b.pending : n <= m}
<1>1. S \in SUBSET Nat /\ b.highest \in S /\ b.highest \in Nat /\ \A s \in S : s <= b.highest
  BY DEF Window
<1>2. IsFiniteSet(S)
  BY <1>1, FS_BoundedSetOfNaturals
<1>3. Cardinality(S) \in Nat /\ Cardinality(S) # 0
  BY <1>1, <1>2, FS_CardinalityType, FS_EmptySet
<1>4. PICK m \in S : Rank(S, m) = 1
  <2>1. 1 \in 1..Cardinality(S)
    BY <1>3
  <2> QED BY <1>1, <1>2, <2>1, Ranks
<1>5. \A k \in S : m <= k
  <2>1. ASSUME NEW k \in S, k < m PROVE FALSE
    <3>1. Rank(S, k) < 1 /\ Rank(S, k) \in 1..Cardinality(S)
      BY <1>1, <1>2, <1>4, <2>1, Ranks
    <3> QED BY <1>3, <3>1
  <2> QED BY <1>1, <2>1
<1>6. \E x \in b.pending : x >= n /\ \A k \in b.pending : k >= n => x <= k
  BY <1>1, <1>4, <1>5
<1> DEFINE g == GapEnd(b, n)
<1>7. g \in b.pending /\ g >= n /\ \A k \in b.pending : k >= n => g <= k
  BY <1>6 DEF GapEnd
<1>8. \A k \in b.pending : k \in Nat
  BY DEF Window
<1> HIDE DEF g
<1>9. g \in b.pending /\ n <= g /\ \A k \in b.pending : n <= k => g <= k
  BY <1>7, <1>8
<1> QED BY <1>9 DEF g

\* A skipped number lies in a gap that is skipped as a whole.
LEMMA Gaps ==
    ASSUME NEW b, Window(b), NEW n \in Skipped(b)
    PROVE  \E from \in Nat :
             /\ b.next <= from /\ from <= n /\ n < GapEnd(b, n)
             /\ GapEnd(b, n) \in b.pending /\ GapEnd(b, n) - from > ConcealedGap
             /\ from = b.next \/ from - 1 \in b.pending
             /\ \A k \in from..(GapEnd(b, n) - 1) : k \notin b.pending /\ k \in Skipped(b)
<1> DEFINE g == GapEnd(b, n)
<1>0. b.next \in Nat /\ b.highest \in Nat /\ n \in Nat /\ b.next <= n /\ n <= b.highest
  BY DEF Window, Skipped
<1>1. PICK from \in b.next..n : /\ from = b.next \/ from - 1 \in b.pending
                                /\ \A k \in from..n : k \notin b.pending
                                /\ GapEnd(b, n) - from > ConcealedGap
  BY DEF Skipped
<1>2. g \in b.pending /\ n <= g /\ (\A k \in b.pending : n <= k => g <= k) /\ g \in Nat /\
        g <= b.highest
  BY <1>0, GapEnds DEF Window
<1>3. from \in Nat /\ b.next <= from /\ from <= n
  BY <1>0, <1>1
<1> HIDE DEF g
<1>4. n < g
  BY <1>0, <1>1, <1>2, <1>3
<1>5. ASSUME NEW k \in from..(g - 1) PROVE k \notin b.pending /\ k \in Skipped(b)
  <2>0. k \in Nat /\ from <= k /\ k < g /\ k <= b.highest
    BY <1>0, <1>2, <1>3, <1>5
  <2>1. \A j \in from..k : j \notin b.pending
    <3>1. ASSUME NEW j \in from..k, j \in b.pending PROVE FALSE
      <4>1. j \in Nat /\ from <= j /\ j < g
        BY <1>2, <1>3, <2>0, <3>1
      <4>2. CASE j <= n
        BY <1>0, <1>1, <3>1, <4>1, <4>2
      <4>3. CASE n <= j
        BY <1>2, <3>1, <4>1, <4>3
      <4> QED BY <1>0, <4>1, <4>2, <4>3
    <3> QED BY <3>1
  <2>2. GapEnd(b, k) = g
    <3>1. GapEnd(b, k) \in b.pending /\ k <= GapEnd(b, k) /\ \A j \in b.pending : k <= j =>
            GapEnd(b, k) <= j
      BY <2>0, GapEnds
    <3>2. GapEnd(b, k) <= g
      BY <1>2, <2>0, <3>1
    <3>3. GapEnd(b, k) \in Nat
      BY <3>1 DEF Window
    <3>4. ~(GapEnd(b, k) < g)
      <4> SUFFICES ASSUME GapEnd(b, k) < g PROVE FALSE
        OBVIOUS
      <4>1. GapEnd(b, k) < n
        BY <1>0, <1>2, <3>1, <3>3
      <4>2. GapEnd(b, k) \in from..n
        BY <1>0, <1>3, <2>0, <3>1, <3>3, <4>1
      <4> QED BY <1>1, <3>1, <4>2
    <3> QED BY <1>2, <3>2, <3>3, <3>4
  <2>3. k \in b.next..b.highest /\ from \in b.next..k
    BY <1>0, <1>3, <2>0
  <2>4. GapEnd(b, k) - from > ConcealedGap
    BY <1>1, <2>2 DEF g
  <2>5. k \notin b.pending
    BY <1>3, <2>0, <2>1
  <2> QED BY <1>1, <2>1, <2>3, <2>4, <2>5 DEF Skipped
<1>6. g - from > ConcealedGap
  BY <1>1 DEF g
<1> QED BY <1>1, <1>2, <1>3, <1>4, <1>5, <1>6 DEF g

\* What leaves the window: everything up to the deadline but the skipped gaps.
Leaving(b) == (b.next..(Deadline(b) - 1)) \ Skipped(b)

\* No frame that has arrived is skipped.
LEMMA NothingSkipped ==
    ASSUME NEW b, Window(b), NEW n \in Skipped(b)
    PROVE  n \in Nat /\ n \notin b.pending
BY Gaps DEF Window, Skipped

\* The deadline never passes the highest frame; what leaves has waited for the
\* whole window, and of the frames that have arrived nothing else is dropped.
LEMMA Deadlines ==
    ASSUME Depths, NEW b, Window(b), NEW d, d = Deadline(b)
    PROVE  /\ d \in Nat /\ b.next <= d /\ d <= b.highest /\ b.highest - d < ReorderDepth
           /\ \A n \in Leaving(b) : n \in Nat /\ b.next <= n /\ n < d /\
                n + ReorderDepth <= b.highest
           /\ \A n \in b.pending : n < d => n \in Leaving(b)
<1>0. b.next \in Nat /\ b.highest \in Nat /\ b.next <= b.highest /\ b.highest \in b.pending
  BY DEF Window
<1> DEFINE last == b.highest - ReorderDepth
<1>1. CASE b.highest - b.next < ReorderDepth
  <2>1. d = b.next
    BY <1>1 DEF Deadline
  <2>2. Leaving(b) = {}
    BY <1>0, <1>1 DEF Deadline, Leaving
  <2>3. \A n \in b.pending : ~(n < d)
    BY <2>1 DEF Window
  <2> QED BY <1>0, <1>1, <2>1, <2>2, <2>3
<1>2. CASE ~(b.highest - b.next < ReorderDepth)
  <2>0. last \in Nat /\ b.next <= last /\ last < b.highest /\
          last + ReorderDepth = b.highest /\ b.highest - (last + 1) < ReorderDepth
    BY <1>0, <1>2 DEF Depths
  <2>1. d = IF last \in Skipped(b) THEN GapEnd(b, last) ELSE last + 1
    BY <1>2 DEF Deadline
  <2> HIDE DEF last
  <2>2. d \in Nat /\ last < d /\ d <= b.highest
    <3>1. CASE last \in Skipped(b)
      BY <2>0, <2>1, <3>1, Gaps DEF Window
    <3>2. CASE last \notin Skipped(b)
      BY <1>0, <2>0, <2>1, <3>2
    <3> QED BY <3>1, <3>2
  <2>3. ASSUME NEW n \in Leaving(b) PROVE n \in Nat /\ b.next <= n /\ n < d /\ n <= last
    <3>1. n \in Nat /\ b.next <= n /\ n < d /\ n \notin Skipped(b)
      BY <1>0, <2>2 DEF Leaving
    <3>2. CASE last \in Skipped(b)
      <4>1. PICK from \in Nat : from <= last /\ \A k \in from..(GapEnd(b,
              last) - 1) : k \in Skipped(b)
        BY <3>2, Gaps
      <4>2. n \notin from..(d - 1)
        BY <2>1, <3>1, <3>2, <4>1
      <4> QED BY <2>0, <2>2, <3>1, <4>1, <4>2
    <3>3. CASE last \notin Skipped(b)
      BY <2>0, <2>1, <3>1, <3>3
    <3> QED BY <3>2, <3>3, <3>1
  <2>4. ASSUME NEW n \in b.pending, n < d PROVE n \in Leaving(b)
    <3>1. n \in Nat /\ b.next <= n /\ n \notin Skipped(b)
      BY NothingSkipped DEF Window
    <3> QED BY <1>0, <2>2, <2>4, <3>1 DEF Leaving
  <2>5. b.highest - d < ReorderDepth
    BY <1>0, <2>0, <2>2 DEF Depths
  <2>6. \A n \in Leaving(b) : n + ReorderDepth <= b.highest
    BY <1>0, <2>0, <2>3 DEF Depths
  <2>7. b.next <= d
    BY <1>0, <2>0, <2>2
  <2> QED BY <2>2, <2>3, <2>4, <2>5, <2>6, <2>7
<1> QED BY <1>1, <1>2

\* Two frames that leave one after the other are next to each other, or a whole
\* gap that is too long to be concealed lies between them.
LEMMA NoHoleInside ==
    ASSUME Depths, NEW b, Window(b), NEW x \in Nat, NEW y \in Leaving(b), x < y,
             b.next <= x + 1,
           \A k \in Leaving(b) : ~(x < k /\ k < y),
           x + 1 = b.next \/ x \in Leaving(b)
    PROVE  y - x = 1 \/ y - x > ConcealedGap + 1
<1>0. b.next \in Nat /\ b.highest \in Nat /\ Deadline(b) \in Nat /\ Deadline(b) <= b.highest
      /\ y \in Nat /\ y < Deadline(b) /\ y \notin Skipped(b) /\ ConcealedGap \in Nat
  BY Deadlines DEF Window, Leaving, Depths
<1>1. CASE y = x + 1
  BY <1>0, <1>1
<1>2. CASE y # x + 1
  <2>1. ASSUME NEW k \in Nat, x < k, k < y PROVE k \in Skipped(b)
    <3>1. b.next <= k /\ k <= Deadline(b) - 1 /\ Deadline(b) - 1 \in Int
      BY <1>0, <2>1
    <3> QED BY <1>0, <2>1, <3>1 DEF Leaving
  <2>2. x + 1 \in Skipped(b)
    BY <1>0, <1>2, <2>1
  <2>3. PICK from \in Nat :
          /\ b.next <= from /\ from <= x + 1 /\ x + 1 < GapEnd(b, x + 1)
          /\ GapEnd(b, x + 1) \in b.pending /\ GapEnd(b, x + 1) - from > ConcealedGap
          /\ \A k \in from..(GapEnd(b, x + 1) - 1) : k \in Skipped(b)
    BY <2>2, Gaps
  <2> DEFINE g == GapEnd(b, x + 1)
  <2>4. g \in Nat
    BY <2>3 DEF Window
  <2> HIDE DEF g
  <2>5. from = x + 1
    <3> SUFFICES ASSUME from <= x PROVE FALSE
      BY <2>3
    <3>1. x \in from..(g - 1)
      BY <2>3, <2>4 DEF g
    <3>2. x \in Skipped(b)
      BY <2>3, <3>1 DEF g
    <3>3. x + 1 # b.next
      BY <1>0, <2>3
    <3> QED BY <3>2, <3>3 DEF Leaving
  <2>6. ~(y < g)
    <3> SUFFICES ASSUME y < g PROVE FALSE
      OBVIOUS
    <3>1. y \in from..(g - 1)
      BY <1>0, <2>4, <2>5
    <3> QED BY <1>0, <2>3, <3>1 DEF g
  <2>7. g - from > ConcealedGap
    BY <2>3 DEF g
  <2> QED BY <1>0, <2>4, <2>5, <2>6, <2>7
<1> QED BY <1>1, <1>2

\* The same of the last frame that leaves and the deadline.
LEMMA NoHoleAfter ==
    ASSUME Depths, NEW b, Window(b), NEW x \in Int, x < Deadline(b), b.next <= x + 1,
           \A k \in Leaving(b) : ~(x < k),
           x + 1 = b.next \/ x \in Leaving(b)
    PROVE  \/ x = Deadline(b) - 1
           \/ Deadline(b) \in b.pending /\ Deadline(b) - x > ConcealedGap + 1
<1> DEFINE d == Deadline(b)
<1>0. b.next \in Nat /\ b.highest \in Nat /\ d \in Nat /\ d <= b.highest /\ b.next <= d /\
        ConcealedGap \in Nat
  BY Deadlines DEF Window, Depths
<1> HIDE DEF d
<1>1. CASE x = d - 1
  BY <1>1 DEF d
<1>2. CASE x # d - 1
  <2>1. d - 1 \in Nat /\ x < d - 1 /\ b.next <= d - 1
    BY <1>0, <1>2 DEF d
  <2>2. d - 1 \in Skipped(b)
    BY <1>0, <2>1 DEF Leaving, d
  <2>3. PICK from \in Nat :
          /\ b.next <= from /\ from <= d - 1 /\ d - 1 < GapEnd(b, d - 1)
          /\ GapEnd(b, d - 1) \in b.pending /\ GapEnd(b, d - 1) - from > ConcealedGap
          /\ from = b.next \/ from - 1 \in b.pending
          /\ \A k \in from..(GapEnd(b, d - 1) - 1) : k \in Skipped(b)
    BY <2>2, Gaps
  <2>4. GapEnd(b, d - 1) = d
    <3> DEFINE last == b.highest - ReorderDepth
    <3>1. ~(b.highest - b.next < ReorderDepth) /\ d = IF last \in Skipped(b) THEN GapEnd(b,
            last) ELSE last + 1
      BY <1>0, <2>1 DEF Deadline, d
    <3>2. last \in Nat /\ b.next <= last
      BY <1>0, <3>1 DEF Depths
    <3> HIDE DEF last
    <3>3. last \in Skipped(b)
      BY <2>2, <3>1, <3>2
    <3>4. last <= d - 1 /\ d \in b.pending /\ \A k \in b.pending : last <= k => d <= k
      <4>1. last <= b.highest
        BY <1>0, <3>3 DEF Skipped
      <4>2. d \in b.pending /\ last <= d /\ \A k \in b.pending : last <= k => d <= k
        BY <3>1, <3>2, <3>3, <4>1, GapEnds
      <4>3. last < d
        BY <3>1, <3>3, Gaps
      <4> QED BY <1>0, <3>2, <4>2, <4>3
    <3>5. /\ GapEnd(b, d - 1) \in b.pending /\ d - 1 <= GapEnd(b, d - 1)
          /\ \A k \in b.pending : d - 1 <= k => GapEnd(b, d - 1) <= k
      BY <1>0, <2>1, GapEnds
    <3>6. GapEnd(b, d - 1) \in Nat
      BY <3>5 DEF Window
    <3> QED BY <1>0, <2>1, <2>3, <3>2, <3>4, <3>5, <3>6
  <2>5. x = from - 1
    <3>1. ~(from <= x)
      <4> SUFFICES ASSUME from <= x PROVE FALSE
        OBVIOUS
      <4>1. x \in from..(d - 1)
        BY <1>0, <2>1
      <4>2. x \in Skipped(b)
        BY <2>3, <2>4, <4>1
      <4>3. x + 1 # b.next
        BY <1>0, <2>3
      <4> QED BY <4>2, <4>3 DEF Leaving
    <3>2. ~(x < from - 1)
      <4> SUFFICES ASSUME x < from - 1 PROVE FALSE
        OBVIOUS
      <4>1. from # b.next
        BY <1>0
      <4>2. from - 1 \in b.pending /\ from - 1 < d
        BY <1>0, <2>3, <4>1
      <4>3. from - 1 \in Leaving(b)
        BY <4>2, Deadlines DEF d
      <4> QED BY <4>3
    <3> QED BY <3>1, <3>2
  <2>6. d \in b.pending /\ d - from > ConcealedGap
    BY <2>3, <2>4
  <2>7. d - x > ConcealedGap + 1
    BY <1>0, <2>5, <2>6
  <2> QED BY <2>6, <2>7 DEF d
<1> QED BY <1>1, <1>2

\* Sequences of frames of a flow of max numbers.
FramesBelow(max) == Seq([seq : 0..(max - 1), real : BOOLEAN])

\* PlayoutHasNoHoles, of any sequence.
NoHoles(all) ==
    \A i \in 1..(Len(all) - 1) :
        LET step == all[i + 1].seq - all[i].seq IN step = 1 \/ step > ConcealedGap + 1

\* Where the playout has got to: one behind next, or next ends a skipped gap.
Prior(b, all) ==
    all # <<>> => LET l == all[Len(all)].seq IN
        /\ l < b.next
        /\ l + 1 = b.next \/ (b.next \in b.pending /\ b.next - l > ConcealedGap + 1)

\* A concatenation, index by index.
LEMMA Joined ==
    ASSUME NEW S, NEW s \in Seq(S), NEW u \in Seq(S)
    PROVE  /\ s \o u \in Seq(S) /\ Len(s) \in Nat /\ Len(u) \in Nat /\
                Len(s \o u) = Len(s) + Len(u)
           /\ DOMAIN s = 1..Len(s) /\ DOMAIN u = 1..Len(u) /\
                DOMAIN (s \o u) = 1..(Len(s) + Len(u))
           /\ \A i \in DOMAIN s : i \in DOMAIN (s \o u) /\ (s \o u)[i] = s[i]
           /\ \A i \in DOMAIN u : Len(s) + i \in DOMAIN (s \o u) /\ (s \o u)[Len(s) + i] = u[i]
           /\ \A i \in DOMAIN (s \o u) : i \in DOMAIN s \/ (i - Len(s) \in DOMAIN u /\
                i = Len(s) + (i - Len(s)))
<1>1. /\ s \o u \in Seq(S) /\ Len(s \o u) = Len(s) + Len(u)
      /\ \A i \in 1..(Len(s) + Len(u)) : (s \o u)[i] = IF i <= Len(s) THEN s[i] ELSE u[i - Len(s)]
  BY ConcatProperties, Zenon
<1>2. Len(s) \in Nat /\ Len(u) \in Nat /\ DOMAIN s = 1..Len(s) /\ DOMAIN u = 1..Len(u)
  BY LenProperties
<1>3. DOMAIN (s \o u) = 1..(Len(s) + Len(u))
  BY <1>1, LenProperties
<1> DEFINE c == s \o u
<1> HIDE DEF c
<1>4. \A i \in DOMAIN s : i \in 1..(Len(s) + Len(u)) /\ c[i] = s[i]
  BY <1>1, <1>2 DEF c
<1>5. ASSUME NEW i \in DOMAIN u PROVE Len(s) + i \in 1..(Len(s) + Len(u)) /\
               c[Len(s) + i] = u[i]
  <2>1. i \in Nat /\ 1 <= i /\ i <= Len(u)
    BY <1>2
  <2>2. Len(s) + i \in 1..(Len(s) + Len(u)) /\ ~(Len(s) + i <= Len(s)) /\
          (Len(s) + i) - Len(s) = i
    BY <1>2, <2>1
  <2> QED BY <1>1, <2>2 DEF c
<1>6. \A i \in 1..(Len(s) + Len(u)) : i \in DOMAIN s \/ (i - Len(s) \in DOMAIN u /\
        i = Len(s) + (i - Len(s)))
  BY <1>2
<1> QED BY <1>1, <1>2, <1>3, <1>4, <1>5, <1>6 DEF c

\* The real frames of a concatenation.
LEMMA RealsJoined ==
    ASSUME NEW S, NEW s \in Seq(S), NEW u \in Seq(S)
    PROVE  RealFrames(s \o u) = RealFrames(s) \cup RealFrames(u)
<1>1. ASSUME NEW n \in RealFrames(s \o u) PROVE n \in RealFrames(s) \cup RealFrames(u)
  <2>1. PICK i \in DOMAIN (s \o u) : (s \o u)[i].real /\ n = (s \o u)[i].seq
    BY DEF RealFrames
  <2>2. CASE i \in DOMAIN s
    BY <2>1, <2>2, Joined DEF RealFrames
  <2>3. CASE i - Len(s) \in DOMAIN u /\ i = Len(s) + (i - Len(s))
    <3>1. (s \o u)[i] = u[i - Len(s)]
      BY <2>3, Joined
    <3> QED BY <2>1, <2>3, <3>1 DEF RealFrames
  <2> QED BY <2>2, <2>3, Joined
<1>2. ASSUME NEW n \in RealFrames(s) PROVE n \in RealFrames(s \o u)
  <2>1. PICK i \in DOMAIN s : s[i].real /\ n = s[i].seq
    BY DEF RealFrames
  <2>2. i \in DOMAIN (s \o u) /\ (s \o u)[i] = s[i]
    BY Joined
  <2> QED BY <2>1, <2>2 DEF RealFrames
<1>3. ASSUME NEW n \in RealFrames(u) PROVE n \in RealFrames(s \o u)
  <2>1. PICK i \in DOMAIN u : u[i].real /\ n = u[i].seq
    BY DEF RealFrames
  <2>2. Len(s) + i \in DOMAIN (s \o u) /\ (s \o u)[Len(s) + i] = u[i]
    BY Joined
  <2> QED BY <2>1, <2>2 DEF RealFrames
<1> QED BY <1>1, <1>2, <1>3

\* No frame of nothing is real.
LEMMA NothingIsReal == RealFrames(<<>>) = {}
BY DEF RealFrames

\* What leaves the window is in order, with each frame that has arrived real.
LEMMA Leaves ==
    ASSUME Depths, NEW b, Window(b), NEW max \in Nat, b.highest < max, NEW q, q = InOrder(b,
             Leaving(b))
    PROVE  /\ q \in FramesBelow(max)
           /\ \A i \in DOMAIN q : q[i].seq \in Leaving(b) /\
                q[i].real = (q[i].seq \in b.pending)
           /\ \A n \in Leaving(b) : \E i \in DOMAIN q : q[i].seq = n
           /\ \A i, j \in DOMAIN q : i < j => q[i].seq < q[j].seq
<1> DEFINE S == Leaving(b)
<1>1. b.highest \in Nat
  BY DEF Window
<1>2. \A n \in S : n \in Nat /\ n <= b.highest /\ n \in 0..(max - 1)
  <2>1. \A n \in S : n \in Nat /\ n + ReorderDepth <= b.highest
    BY Deadlines
  <2> QED BY <1>1, <2>1 DEF Depths
<1> HIDE DEF S
<1>3. S \in SUBSET Nat /\ S \in SUBSET (0..(max - 1))
  BY <1>2
<1>4. IsFiniteSet(S)
  BY <1>1, <1>2, <1>3, FS_BoundedSetOfNaturals
<1>5. /\ q \in Seq([seq : S, real : BOOLEAN])
      /\ \A i \in DOMAIN q : q[i].seq \in S /\ q[i].real = (q[i].seq \in b.pending)
      /\ \A n \in S : \E i \in DOMAIN q : q[i].seq = n
      /\ \A i, j \in DOMAIN q : i < j => q[i].seq < q[j].seq
  <2>1. q = InOrder(b, S)
    BY DEF S
  <2>2. Sorted(q, S, b)
    BY <1>3, <1>4, <2>1, Ordered
  <2> QED BY <2>2 DEF Sorted
<1>6. [seq : S, real : BOOLEAN] \subseteq [seq : 0..(max - 1), real : BOOLEAN]
  BY <1>3
<1>7. q \in FramesBelow(max)
  BY <1>5, <1>6, SeqMonotonic DEF FramesBelow
<1> QED BY <1>5, <1>7 DEF S

\* What leaves the window continues what was released without a hole that could
\* have been concealed, and ends where the window now begins.
LEMMA PlayoutGrows ==
    ASSUME Depths, NEW b, Window(b), NEW max \in Nat, b.highest < max,
             NEW all \in FramesBelow(max),
           Prior(b, all), NoHoles(all), NEW q, q = InOrder(b, Leaving(b))
    PROVE  /\ NoHoles(all \o q)
           /\ all \o q # <<>> => LET l == (all \o q)[Len(all \o q)].seq IN
                /\ l < Deadline(b)
                /\ \/ l + 1 = Deadline(b)
                   \/ Deadline(b) \in b.pending /\ Deadline(b) - l > ConcealedGap + 1
<1> DEFINE F == [seq : 0..(max - 1), real : BOOLEAN]
           c == all \o q
           d == Deadline(b)
           m == Len(all)
           k == Len(q)
<1>0. /\ q \in Seq(F)
      /\ \A i \in DOMAIN q : q[i].seq \in Leaving(b)
      /\ \A n \in Leaving(b) : \E i \in DOMAIN q : q[i].seq = n
      /\ \A i, j \in DOMAIN q : i < j => q[i].seq < q[j].seq
  <2>1. q \in Seq(F)
    BY Leaves DEF FramesBelow
  <2> HIDE DEF F
  <2> QED BY <2>1, Leaves
<1>1. all \in Seq(F)
  BY DEF FramesBelow
<1> HIDE DEF F
<1>2. /\ c \in Seq(F) /\ m \in Nat /\ k \in Nat /\ Len(c) = m + k
      /\ DOMAIN all = 1..m /\ DOMAIN q = 1..k
      /\ \A i \in 1..m : c[i] = all[i]
      /\ \A i \in 1..k : c[m + i] = q[i]
  BY <1>0, <1>1, Joined
<1>3. /\ d \in Nat /\ b.next <= d /\ b.next \in Nat /\ ConcealedGap \in Nat
      /\ \A n \in Leaving(b) : n \in Nat /\ b.next <= n /\ n < d
      /\ \A n \in b.pending : n < d => n \in Leaving(b)
  BY Deadlines DEF Window, Depths
<1>4. m > 0 => all[m].seq \in Nat
  <2>1. m > 0 => all[m] \in F
    BY <1>1, <1>2, ElementOfSeq
  <2> QED BY <2>1 DEF F
<1> HIDE DEF c, d, m, k
<1>5. m > 0 => /\ all[m].seq < b.next
               /\ all[m].seq + 1 = b.next \/ (b.next \in b.pending /\
                    b.next - all[m].seq > ConcealedGap + 1)
  <2>1. m > 0 => all # <<>>
    BY <1>1, EmptySeq DEF m
  <2> QED BY <2>1 DEF Prior, m
<1>11. /\ \A i \in 1..k : q[i].seq \in Nat /\ q[i].seq \in Leaving(b)
       /\ \A i, j \in 1..k : i < j => q[i].seq < q[j].seq
       /\ \A n \in Leaving(b) : \E i \in 1..k : q[i].seq = n
  <2>1. DOMAIN q = 1..k
    BY <1>2
  <2> QED BY <1>0, <1>3, <2>1
<1>12. ASSUME NEW i \in 1..k, NEW j \in 1..k, q[i].seq < q[j].seq PROVE i < j
  <2>1. i \in Nat /\ j \in Nat /\ q[i].seq \in Nat /\ q[j].seq \in Nat
    BY <1>2, <1>11
  <2>2. ~(j < i) /\ j # i
    BY <1>11, <1>12, <2>1
  <2> QED BY <2>1, <2>2
<1>6. ASSUME NEW i \in 1..k, NEW n \in Leaving(b), NEW j \in 1..k, q[i].seq < n, n < q[j].seq
      PROVE  j # i + 1
  <2>1. PICK h \in 1..k : q[h].seq = n
    BY <1>11
  <2>2. i < h /\ h < j
    BY <1>6, <1>12, <2>1
  <2> QED BY <1>2, <2>2
<1>7. ASSUME NEW i \in 1..(k - 1)
      PROVE  q[i + 1].seq - q[i].seq = 1 \/ q[i + 1].seq - q[i].seq > ConcealedGap + 1
  <2>1. i \in 1..k /\ i + 1 \in 1..k /\ i < i + 1
    BY <1>2
  <2>2. q[i].seq \in Leaving(b) /\ q[i + 1].seq \in Leaving(b) /\ q[i].seq < q[i + 1].seq
    BY <1>0, <1>2, <2>1
  <2>3. \A n \in Leaving(b) : ~(q[i].seq < n /\ n < q[i + 1].seq)
    BY <1>6, <2>1
  <2>4. q[i].seq \in Nat /\ b.next <= q[i].seq + 1
    BY <1>3, <2>2
  <2> QED BY <2>2, <2>3, <2>4, NoHoleInside
<1>8. ASSUME k > 0, m > 0
      PROVE  q[1].seq - all[m].seq = 1 \/ q[1].seq - all[m].seq > ConcealedGap + 1
  <2>1. 1 \in 1..k /\ q[1].seq \in Leaving(b) /\ q[1].seq \in Nat /\ b.next <= q[1].seq
    BY <1>0, <1>2, <1>3, <1>8
  <2>2. \A n \in Leaving(b) : ~(n < q[1].seq)
    <3>1. ASSUME NEW n \in Leaving(b), n < q[1].seq PROVE FALSE
      <4>1. PICK h \in 1..k : q[h].seq = n
        BY <1>11
      <4>2. h < 1
        BY <1>12, <2>1, <3>1, <4>1
      <4> QED BY <1>2, <4>2
    <3> QED BY <3>1
  <2>3. CASE all[m].seq + 1 = b.next
    <3>1. all[m].seq < q[1].seq
      BY <1>4, <1>8, <2>1, <2>3
    <3>2. \A n \in Leaving(b) : ~(all[m].seq < n /\ n < q[1].seq)
      BY <2>2
    <3>3. b.next <= all[m].seq + 1
      BY <1>3, <2>3
    <3> QED BY <1>4, <1>8, <2>1, <2>3, <3>1, <3>2, <3>3, NoHoleInside
  <2>4. CASE b.next \in b.pending /\ b.next - all[m].seq > ConcealedGap + 1
    <3>1. b.next \in Leaving(b)
      BY <1>3, <2>1, <2>4
    <3>2. q[1].seq = b.next
      BY <1>3, <2>1, <2>2, <3>1
    <3> QED BY <2>4, <3>2
  <2> QED BY <1>5, <1>8, <2>3, <2>4
<1>9. NoHoles(c)
  <2>1. ASSUME NEW i \in 1..(Len(c) - 1)
        PROVE  c[i + 1].seq - c[i].seq = 1 \/ c[i + 1].seq - c[i].seq > ConcealedGap + 1
    <3>1. i \in Nat /\ 1 <= i /\ i + 1 <= m + k
      BY <1>2
    <3>2. CASE i + 1 <= m
      <4>1. c[i] = all[i] /\ c[i + 1] = all[i + 1] /\ i \in 1..(m - 1)
        BY <1>2, <3>1, <3>2
      <4> QED BY <4>1 DEF NoHoles, m
    <3>3. CASE i = m
      <4>1. k > 0 /\ m > 0 /\ c[i] = all[m]
        BY <1>2, <3>1, <3>3
      <4>2. c[i + 1] = q[1]
        BY <1>2, <3>3, <4>1
      <4> QED BY <1>8, <4>1, <4>2
    <3>4. CASE m < i
      <4>1. i - m \in 1..(k - 1) /\ i - m \in 1..k /\ (i - m) + 1 \in 1..k /\
              m + (i - m) = i /\ m + ((i - m) + 1) = i + 1
        BY <1>2, <3>1, <3>4
      <4>2. c[i] = q[i - m] /\ c[i + 1] = q[(i - m) + 1]
        BY <1>2, <4>1
      <4> QED BY <1>7, <4>1, <4>2
    <3> QED BY <1>2, <3>1, <3>2, <3>3, <3>4
  <2> QED BY <2>1 DEF NoHoles
<1>10. ASSUME c # <<>>
       PROVE  /\ c[Len(c)].seq < d
              /\ c[Len(c)].seq + 1 = d \/ (d \in b.pending /\
                   d - c[Len(c)].seq > ConcealedGap + 1)
  <2>1. Len(c) > 0
    BY <1>2, <1>10, EmptySeq
  <2>2. CASE k > 0
    <3>1. k \in 1..k /\ m + k = Len(c)
      BY <1>2, <2>2
    <3>2. c[Len(c)] = q[k] /\ q[k].seq \in Leaving(b)
      BY <1>0, <1>2, <3>1
    <3>3. q[k].seq \in Nat /\ q[k].seq < d /\ b.next <= q[k].seq + 1
      BY <1>3, <3>2
    <3>4. \A n \in Leaving(b) : ~(q[k].seq < n)
      <4>1. ASSUME NEW n \in Leaving(b), q[k].seq < n PROVE FALSE
        <5>1. PICK h \in 1..k : q[h].seq = n
          BY <1>11
        <5>2. k < h
          BY <1>12, <3>1, <4>1, <5>1
        <5> QED BY <1>2, <5>2
      <4> QED BY <4>1
    <3>5. q[k].seq = d - 1 \/ (d \in b.pending /\ d - q[k].seq > ConcealedGap + 1)
      BY <3>2, <3>3, <3>4, NoHoleAfter DEF d
    <3> QED BY <1>3, <3>2, <3>3, <3>5
  <2>3. CASE k = 0
    <3>1. m > 0 /\ c[Len(c)] = all[m] /\ all[m].seq \in Nat
      BY <1>2, <1>4, <2>1, <2>3
    <3>2. Leaving(b) = {}
      BY <1>0, <1>2, <2>3
    <3>3. all[m].seq < d
      BY <1>3, <1>5, <3>1
    <3>4. CASE all[m].seq + 1 = b.next
      <4>1. all[m].seq = d - 1 \/ (d \in b.pending /\ d - all[m].seq > ConcealedGap + 1)
        <5>1. b.next <= all[m].seq + 1 /\ all[m].seq \in Int
          BY <1>3, <3>1, <3>4
        <5> QED BY <3>2, <3>3, <3>4, <5>1, NoHoleAfter DEF d
      <4> QED BY <1>3, <3>1, <3>3, <4>1
    <3>5. CASE b.next \in b.pending /\ b.next - all[m].seq > ConcealedGap + 1
      <4>1. b.next = d
        BY <1>3, <3>2, <3>5
      <4> QED BY <3>1, <3>3, <3>5, <4>1
    <3> QED BY <1>5, <3>1, <3>4, <3>5
  <2> QED BY <1>2, <2>2, <2>3
<1> QED BY <1>9, <1>10 DEF c, d

Buffers(max) ==
    [next : 0..max \cup {Unset}, highest : 0..(max - 1) \cup {Unset},
     pending : SUBSET (0..(max - 1)), started : BOOLEAN, held : FramesBelow(max)]

\* Concealed frames are those of which no copy can come anymore.
NoCopyLeft(b, all, lag) == \A i \in DOMAIN all : all[i].real \/ b.highest >= all[i].seq + lag

\* What is held is less than a full reservoir, and nothing once that was released.
Reservoir(b) == Len(b.held) < StartupFrames /\ (b.started => b.held = <<>>)

\* A buffer, what it has released and what it has accepted.
Pipe(b, heard, accept, max, lag) ==
    /\ b \in Buffers(max) /\ heard \in FramesBelow(max) /\ Reservoir(b)
    /\ b.next = Unset => b.highest = Unset /\ b.pending = {} /\ heard \o b.held = <<>>
    /\ b.next # Unset => /\ Window(b) /\ b.highest - b.next < ReorderDepth
                         /\ Prior(b, heard \o b.held)
    /\ NoHoles(heard \o b.held)
    /\ accept = b.pending \cup RealFrames(heard \o b.held)
    /\ NoCopyLeft(b, heard \o b.held, lag)

\* A new buffer (resetPipeline) has lost nothing.
LEMMA PipeStarts ==
    ASSUME Depths, NEW max \in Nat, NEW lag
    PROVE  Pipe(EmptyBuffer, <<>>, {}, max, lag)
<1>1. <<>> \in FramesBelow(max) /\ Len(<<>>) = 0
  BY EmptySeq DEF FramesBelow
<1>2. <<>> \o <<>> = <<>>
  BY <1>1, ConcatEmptySeq DEF FramesBelow
<1>3. EmptyBuffer \in Buffers(max)
  BY <1>1 DEF EmptyBuffer, Buffers
<1>4. NoHoles(<<>>) /\ NoCopyLeft(EmptyBuffer, <<>>, lag)
  BY <1>1 DEF NoHoles, NoCopyLeft
<1>5. Reservoir(EmptyBuffer)
  BY <1>1 DEF Reservoir, EmptyBuffer, Depths
<1>6. EmptyBuffer.next = Unset /\ EmptyBuffer.highest = Unset /\ EmptyBuffer.pending = {} /\
        EmptyBuffer.held = <<>>
  BY DEF EmptyBuffer
<1> QED BY <1>1, <1>2, <1>3, <1>4, <1>5, <1>6, NothingIsReal DEF Pipe

\* The reservoir only delays: what was heard and what is held grow by the frames
\* that are ready.
Passed(b, heard, incoming, r, max) ==
    /\ r.buf \in Buffers(max) /\ r.batch \in FramesBelow(max) /\ Reservoir(r.buf)
    /\ r.buf.next = b.next /\ r.buf.highest = b.highest /\ r.buf.pending = b.pending
    /\ heard \o r.batch \in FramesBelow(max)
    /\ (heard \o r.batch) \o r.buf.held = (heard \o b.held) \o incoming

\* The startup reservoir keeps the order and loses nothing.
LEMMA Reserved ==
    ASSUME Depths, NEW max \in Nat, NEW b \in Buffers(max), Reservoir(b),
             NEW heard \in FramesBelow(max),
           NEW incoming \in FramesBelow(max), NEW r, r = ThroughReservoir(b, incoming)
    PROVE  Passed(b, heard, incoming, r, max)
<1> USE DEF Passed
<1> DEFINE F == [seq : 0..(max - 1), real : BOOLEAN]
<1>1. b.held \in Seq(F) /\ incoming \in Seq(F) /\ heard \in Seq(F)
  BY DEF FramesBelow, Buffers
<1> HIDE DEF F
<1>2. /\ b.held \o incoming \in Seq(F) /\ <<>> \in Seq(F) /\ Len(<<>>) = 0
      /\ (heard \o b.held) \o incoming = heard \o (b.held \o incoming)
  <2>1. b.held \o incoming \in Seq(F)
    BY <1>1, ConcatProperties, Zenon
  <2>2. (heard \o b.held) \o incoming = heard \o (b.held \o incoming)
    <3>1. ASSUME NEW x \in Seq(F), NEW y \in Seq(F), NEW z \in Seq(F)
          PROVE  (x \o y) \o z = x \o (y \o z)
      BY ConcatAssociative
    <3> QED BY <1>1, <3>1
  <2>3. <<>> \in Seq(F) /\ Len(<<>>) = 0
    BY EmptySeq
  <2> QED BY <2>1, <2>2, <2>3
<1>3. /\ heard \o incoming \in Seq(F) /\ heard \o (b.held \o incoming) \in Seq(F) /\
           heard \in Seq(F)
  BY <1>1, <1>2, ConcatProperties, Zenon
<1>4. /\ (heard \o incoming) \o <<>> = heard \o incoming
      /\ (heard \o (b.held \o incoming)) \o <<>> = heard \o (b.held \o incoming)
      /\ heard \o <<>> = heard
  BY <1>1, <1>2, <1>3, ConcatEmptySeq
<1>5. CASE b.started
  <2>1. r = [buf |-> b, batch |-> incoming] /\ b.held = <<>>
    BY <1>5 DEF ThroughReservoir, Result, Reservoir
  <2>2. r.buf = b /\ r.batch = incoming
    BY <2>1
  <2>3. (heard \o incoming) \o b.held = (heard \o b.held) \o incoming
    BY <1>4, <2>1
  <2> QED BY <1>1, <1>3, <2>1, <2>2, <2>3 DEF FramesBelow, F
<1>6. CASE ~b.started /\ Len(b.held \o incoming) >= StartupFrames
  <2> DEFINE n == [b EXCEPT !.started = TRUE, !.held = <<>>]
  <2>1. r = [buf |-> n, batch |-> b.held \o incoming]
    BY <1>6 DEF ThroughReservoir, Result
  <2>2. n \in Buffers(max) /\ n.next = b.next /\ n.highest = b.highest /\
          n.pending = b.pending /\ n.held = <<>> /\ n.started
    BY <1>2 DEF Buffers, FramesBelow, F
  <2>3. Reservoir(n)
    BY <1>2, <2>2 DEF Reservoir, Depths
  <2>4. r.buf = n /\ r.batch = b.held \o incoming
    BY <2>1
  <2> QED BY <1>2, <1>3, <1>4, <2>2, <2>3, <2>4 DEF FramesBelow, F
<1>7. CASE ~b.started /\ ~(Len(b.held \o incoming) >= StartupFrames)
  <2> DEFINE n == [b EXCEPT !.held = @ \o incoming]
  <2>1. r = [buf |-> n, batch |-> <<>>]
    BY <1>7 DEF ThroughReservoir, Result
  <2>2. n \in Buffers(max) /\ n.next = b.next /\ n.highest = b.highest /\
          n.pending = b.pending /\ n.held = b.held \o incoming /\ n.started = b.started
    BY <1>2 DEF Buffers, FramesBelow, F
  <2>3. Len(b.held \o incoming) \in Nat
    BY <1>2, LenProperties
  <2>4. Reservoir(n)
    BY <1>7, <2>2, <2>3 DEF Reservoir, Depths
  <2>5. r.buf = n /\ r.batch = <<>>
    BY <2>1
  <2> QED BY <1>1, <1>2, <1>3, <1>4, <2>2, <2>4, <2>5 DEF FramesBelow, F
<1> QED BY <1>5, <1>6, <1>7

\* A frame that is in time opens or widens the window.
LEMMA Enqueued ==
    ASSUME Depths, NEW max \in Nat, NEW lag, NEW b, NEW heard, NEW accept, Pipe(b, heard,
             accept, max, lag),
           NEW n \in 0..(max - 1), ~Late(b, n), n \notin b.pending, NEW c, c = Queue(b, n)
    PROVE  /\ c \in Buffers(max) /\ Reservoir(c) /\ Window(c)
           /\ c.pending = b.pending \cup {n} /\ c.held = b.held
           /\ b.highest <= c.highest /\ b.highest \in Int /\ c.highest \in Nat /\
                c.highest < max
           /\ Prior(c, heard \o b.held)
<1>1. /\ b.next \in Int /\ b.highest \in Int /\ n \in Nat /\ n < max /\ b \in Buffers(max)
      /\ b.next = Unset \/ b.next \in Nat
      /\ b.highest = Unset \/ (b.highest \in Nat /\ b.highest < max)
  BY DEF Pipe, Buffers, Unset
<1>2. c.pending = b.pending \cup {n} /\ c.held = b.held /\ c.started = b.started
  BY <1>1 DEF Queue, Buffers
<1>3. /\ c.next = IF b.next = Unset THEN n ELSE b.next
      /\ c.highest = IF n > b.highest THEN n ELSE b.highest
  BY <1>1 DEF Queue, Buffers
<1>4. c.highest \in Nat /\ c.highest < max /\ b.highest <= c.highest
  BY <1>1, <1>3 DEF Unset
<1>5. c \in Buffers(max)
  <2>1. c.next \in 0..max \cup {Unset} /\ c.highest \in 0..(max - 1) /\
          c.pending \in SUBSET (0..(max - 1))
    BY <1>1, <1>2, <1>3, <1>4 DEF Buffers
  <2>2. c = [b EXCEPT !.pending = c.pending, !.next = c.next, !.highest = c.highest]
    BY <1>1, <1>2, <1>3 DEF Queue, Buffers
  <2> QED BY <1>1, <2>1, <2>2 DEF Buffers
<1>6. Window(c)
  <2>1. CASE b.next = Unset
    <3>1. b.highest = Unset /\ c.pending = {n} /\ c.next = n /\ c.highest = n
      BY <1>1, <1>2, <1>3, <2>1 DEF Pipe, Unset
    <3> QED BY <1>1, <3>1 DEF Window
  <2>2. CASE b.next # Unset
    <3>1. Window(b) /\ b.next <= n /\ c.next = b.next
      BY <1>1, <1>3, <2>2 DEF Pipe, Late
    <3> QED BY <1>1, <1>2, <1>3, <3>1 DEF Window
  <2> QED BY <2>1, <2>2
<1>7. Reservoir(c)
  BY <1>2 DEF Pipe, Reservoir
<1>8. Prior(c, heard \o b.held)
  <2>1. CASE b.next = Unset
    BY <2>1 DEF Pipe, Prior
  <2>2. CASE b.next # Unset
    BY <1>2, <1>3, <2>2 DEF Pipe, Prior
  <2> QED BY <2>1, <2>2
<1> QED BY <1>1, <1>2, <1>4, <1>5, <1>6, <1>7, <1>8

\* push keeps all of it, whatever arrives in whatever order.
LEMMA PushKeeps ==
    ASSUME Depths, NEW max \in Nat, NEW lag \in Nat, lag <= ReorderDepth,
           NEW b, NEW heard, NEW accept, Pipe(b, heard, accept, max, lag),
           NEW n \in 0..(max - 1), NEW r, r = Push(b, n)
    PROVE  /\ r.batch \in FramesBelow(max)
           /\ Pipe(r.buf, heard \o r.batch, accept \cup (IF Late(b, n) THEN {} ELSE {n}), max,
                lag)
<1> DEFINE F == [seq : 0..(max - 1), real : BOOLEAN]
           all == heard \o b.held
<1>0. heard \in Seq(F) /\ b.held \in Seq(F) /\ b \in Buffers(max)
  BY DEF Pipe, Buffers, FramesBelow
<1> HIDE DEF F
<1>1. CASE Late(b, n) \/ n \in b.pending
  <2>1. r.buf = b /\ r.batch = <<>>
    BY <1>1 DEF Push, Result
  <2>2. <<>> \in Seq(F) /\ heard \o <<>> = heard
    BY <1>0, EmptySeq, ConcatEmptySeq
  <2>3. accept \cup (IF Late(b, n) THEN {} ELSE {n}) = accept
    BY <1>1 DEF Pipe
  <2>4. <<>> \in FramesBelow(max)
    BY <2>2 DEF FramesBelow, F
  <2>5. Pipe(r.buf, heard \o r.batch, accept \cup (IF Late(b, n) THEN {} ELSE {n}), max, lag)
    BY <2>1, <2>2, <2>3
  <2> QED BY <2>1, <2>4, <2>5
<1>2. CASE ~Late(b, n) /\ n \notin b.pending
  <2> DEFINE c == Queue(b, n)
             d == Deadline(c)
             q == InOrder(c, Leaving(c))
             a == Advance(c, d)
  <2>1. /\ c \in Buffers(max) /\ Reservoir(c) /\ Window(c)
        /\ c.pending = b.pending \cup {n} /\ c.held = b.held
        /\ b.highest <= c.highest /\ b.highest \in Int /\ c.highest \in Nat /\ c.highest < max
        /\ Prior(c, all)
    BY <1>2, Enqueued
  <2>2. r = ThroughReservoir(a, q)
    BY <1>2 DEF Push, Leaving
  <2> HIDE DEF c
  <2>3. /\ d \in Nat /\ c.next <= d /\ d <= c.highest /\ c.highest - d < ReorderDepth
        /\ \A m \in Leaving(c) : m \in Nat /\ m < d /\ m + ReorderDepth <= c.highest
        /\ \A m \in c.pending : m < d => m \in Leaving(c)
    BY <2>1, Deadlines
  <2>4. /\ q \in FramesBelow(max)
        /\ \A i \in DOMAIN q : q[i].seq \in Leaving(c) /\ q[i].real = (q[i].seq \in c.pending)
        /\ \A m \in Leaving(c) : \E i \in DOMAIN q : q[i].seq = m
    BY <2>1, Leaves
  <2>5. all \in Seq(F)
    BY <1>0, ConcatProperties, Zenon
  <2>6. /\ NoHoles(all \o q)
        /\ all \o q # <<>> => LET l == (all \o q)[Len(all \o q)].seq IN
                /\ l < d
                /\ l + 1 = d \/ (d \in c.pending /\ d - l > ConcealedGap + 1)
    <3>1. all \in FramesBelow(max) /\ NoHoles(all)
      BY <2>5 DEF FramesBelow, F, Pipe
    <3> HIDE DEF all
    <3> QED BY <2>1, <3>1, PlayoutGrows
  <2> HIDE DEF d, q, all
  <2>7. /\ a \in Buffers(max) /\ a.next = d /\ a.highest = c.highest
        /\ a.pending = {m \in c.pending : m >= d} /\ a.held = b.held /\ a.started = c.started
    <3>1. d \in 0..max /\ {m \in c.pending : m >= d} \in SUBSET (0..(max - 1))
      BY <2>1, <2>3 DEF Buffers
    <3> QED BY <2>1, <3>1 DEF Advance, Buffers
  <2> HIDE DEF a
  <2>8. Reservoir(a)
    BY <2>1, <2>7 DEF Reservoir
  <2>9. /\ r.buf \in Buffers(max) /\ r.batch \in FramesBelow(max) /\ Reservoir(r.buf)
        /\ r.buf.next = d /\ r.buf.highest = c.highest /\ r.buf.pending = a.pending
        /\ heard \o r.batch \in FramesBelow(max)
        /\ (heard \o r.batch) \o r.buf.held = all \o q
    <3>1. heard \in FramesBelow(max)
      BY <1>0 DEF FramesBelow, F
    <3>2. q \in FramesBelow(max) /\ a \in Buffers(max)
      BY <2>4, <2>7
    <3>4. Passed(a, heard, q, r, max)
      BY <2>2, <2>8, <3>1, <3>2, Reserved
    <3>3. all = heard \o a.held
      BY <2>7 DEF all
    <3> QED BY <2>7, <3>3, <3>4 DEF Passed
  <2> DEFINE k == r.buf
             now == all \o q
  <2>10. Window(k) /\ k.highest - k.next < ReorderDepth /\ k.next # Unset
    <3>1. \A m \in k.pending : m \in c.pending /\ m \in Nat /\ d <= m /\ m <= c.highest
      BY <2>1, <2>3, <2>7, <2>9 DEF Window
    <3>2. c.highest \in k.pending
      BY <2>1, <2>3, <2>7, <2>9 DEF Window
    <3>3. d # Unset
      BY <2>3 DEF Unset
    <3> QED BY <2>3, <2>9, <3>1, <3>2, <3>3 DEF Window
  <2>11. Prior(k, now)
    <3>1. d \in c.pending => d \in k.pending
      BY <2>3, <2>7, <2>9
    <3> QED BY <2>6, <2>9, <3>1 DEF Prior
  <2>12. RealFrames(now) = RealFrames(all) \cup {m \in c.pending : m < d}
    <3>1. RealFrames(now) = RealFrames(all) \cup RealFrames(q)
      BY <2>4, <2>5, RealsJoined DEF FramesBelow, F
    <3>2. ASSUME NEW m \in RealFrames(q) PROVE m \in c.pending /\ m < d
      BY <2>3, <2>4, <3>2 DEF RealFrames
    <3>3. ASSUME NEW m \in c.pending, m < d PROVE m \in RealFrames(q)
      <4>1. PICK i \in DOMAIN q : q[i].seq = m
        BY <2>3, <2>4, <3>3
      <4>2. q[i].real
        BY <2>4, <3>3, <4>1
      <4> QED BY <4>1, <4>2 DEF RealFrames
    <3> QED BY <3>1, <3>2, <3>3
  <2>13. accept \cup {n} = k.pending \cup RealFrames(now)
    <3>1. accept \cup {n} = c.pending \cup RealFrames(all)
      BY <2>1 DEF Pipe, all
    <3>2. \A m \in c.pending : m \in Nat
      BY <2>1 DEF Window
    <3>3. \A m \in c.pending : m < d \/ m >= d
      BY <2>3, <3>2
    <3> QED BY <2>7, <2>9, <2>12, <3>1, <3>3
  <2>14. NoCopyLeft(k, now, lag)
    <3>1. ASSUME NEW i \in DOMAIN now PROVE now[i].real \/ k.highest >= now[i].seq + lag
      <4>1. CASE i \in DOMAIN all
        <5>0. q \in Seq(F) /\ i \in 1..Len(all)
          BY <2>4, <2>5, <4>1, LenProperties DEF FramesBelow, F
        <5>1. now[i] = all[i] /\ all[i] \in F
          BY <2>5, <4>1, <5>0, Joined, ElementOfSeq
        <5>2. all[i].real \/ b.highest >= all[i].seq + lag
          BY <4>1 DEF Pipe, NoCopyLeft, all
        <5>3. all[i].seq \in Nat /\ k.highest = c.highest
          BY <2>9, <5>1 DEF F
        <5> DEFINE v == all[i].seq
        <5> HIDE DEF v, k
        <5>4. b.highest >= v + lag => k.highest >= v + lag
          BY <2>1, <5>3 DEF v
        <5> QED BY <5>1, <5>2, <5>4 DEF v
      <4>2. CASE i - Len(all) \in DOMAIN q /\ i = Len(all) + (i - Len(all))
        <5>1. now[i] = q[i - Len(all)]
          BY <2>4, <2>5, <4>2, Joined DEF FramesBelow, F
        <5>2. q[i - Len(all)].seq \in Nat /\ q[i - Len(all)].seq + ReorderDepth <= c.highest
          BY <2>3, <2>4, <4>2
        <5> DEFINE v == q[i - Len(all)].seq
        <5> HIDE DEF v
        <5>5. v \in Nat /\ v + ReorderDepth <= c.highest
          BY <5>2 DEF v
        <5>6. c.highest \in Nat /\ ReorderDepth \in Nat
          BY <2>1 DEF Depths
        <5>4. v + lag <= c.highest
          BY <5>5, <5>6
        <5>3. q[i - Len(all)].seq + lag <= c.highest
          BY <5>4 DEF v
        <5> QED BY <2>1, <2>9, <5>1, <5>2, <5>3
      <4> QED BY <2>4, <2>5, <4>1, <4>2, Joined DEF FramesBelow, F
    <3> QED BY <3>1 DEF NoCopyLeft
  <2>15. accept \cup (IF Late(b, n) THEN {} ELSE {n}) = accept \cup {n}
    BY <1>2
  <2> HIDE DEF k, now
  <2>16. Pipe(k, heard \o r.batch, accept \cup {n}, max, lag)
    BY <2>6, <2>9, <2>10, <2>11, <2>13, <2>14 DEF Pipe, k, now
  <2> QED BY <2>9, <2>15, <2>16 DEF k
<1> QED BY <1>1, <1>2

\* finish releases exactly the frames that were accepted.
LEMMA FinishReleases ==
    ASSUME Depths, NEW max \in Nat, NEW lag, NEW b, NEW heard, NEW accept, Pipe(b, heard,
             accept, max, lag)
    PROVE  Finish(b) \in FramesBelow(max) /\ heard \o Finish(b) \in FramesBelow(max)
           /\ RealFrames(heard \o Finish(b)) = accept
<1> DEFINE F == [seq : 0..(max - 1), real : BOOLEAN]
<1>0. heard \in Seq(F) /\ b.held \in Seq(F) /\ b \in Buffers(max) /\ FramesBelow(max) = Seq(F)
  BY DEF Pipe, Buffers, FramesBelow
<1> HIDE DEF F
<1>1. CASE b.next = Unset
  <2>1. Finish(b) = <<>> /\ heard \o b.held = <<>> /\ accept = {}
    BY <1>1, NothingIsReal DEF Finish, Pipe
  <2>2. heard = <<>>
    BY <1>0, <2>1, ConcatEqualIffEmpty
  <2>3. <<>> \o <<>> = <<>> /\ <<>> \in Seq(F)
    BY EmptySeq, ConcatEmptySeq
  <2> QED BY <1>0, <2>1, <2>2, <2>3, NothingIsReal
<1>2. CASE b.next # Unset
  <2> DEFINE S == b.next..b.highest
             q == InOrder(b, S)
  <2>1. Window(b) /\ b.highest \in Nat /\ b.next \in Nat /\ b.highest < max
    BY <1>2 DEF Pipe, Window, Buffers, Unset
  <2>2. S \in SUBSET Nat /\ S \in SUBSET (0..(max - 1)) /\ b.pending \in SUBSET S
    BY <2>1 DEF Window
  <2>3. IsFiniteSet(S)
    <3>1. b.next \in Int /\ b.highest \in Int
      BY <2>1
    <3> QED BY <3>1, FS_Interval
  <2> HIDE DEF S
  <2>4. /\ q \in Seq([seq : S, real : BOOLEAN])
        /\ \A i \in DOMAIN q : q[i].seq \in S /\ q[i].real = (q[i].seq \in b.pending)
        /\ \A n \in S : \E i \in DOMAIN q : q[i].seq = n
    <3>1. q = InOrder(b, S)
      OBVIOUS
    <3> HIDE DEF q
    <3>2. Sorted(q, S, b)
      BY <2>2, <2>3, <3>1, Ordered
    <3> QED BY <3>2 DEF Sorted
  <2>5. q \in Seq(F)
    <3>1. [seq : S, real : BOOLEAN] \subseteq F
      BY <2>2 DEF F
    <3> QED BY <2>4, <3>1, SeqMonotonic
  <2>6. Finish(b) = b.held \o q
    BY <1>2 DEF Finish, S
  <2> HIDE DEF q
  <2>7. b.held \o q \in Seq(F) /\ heard \o b.held \in Seq(F)
    BY <1>0, <2>5, ConcatProperties, Zenon
  <2>8. heard \o (b.held \o q) \in Seq(F)
    BY <1>0, <2>7, ConcatProperties, Zenon
  <2>9. RealFrames(heard \o (b.held \o q)) = RealFrames(heard) \cup (RealFrames(b.held) \cup RealFrames(q))
    <3>1. RealFrames(heard \o (b.held \o q)) = RealFrames(heard) \cup RealFrames(b.held \o q)
      <4>1. ASSUME NEW x \in Seq(F),
                     NEW y \in Seq(F) PROVE RealFrames(x \o y) = RealFrames(x) \cup RealFrames(y)
        BY RealsJoined
      <4> QED BY <1>0, <2>7, <4>1
    <3>2. RealFrames(b.held \o q) = RealFrames(b.held) \cup RealFrames(q)
      BY <1>0, <2>5, RealsJoined
    <3> QED BY <3>1, <3>2
  <2>10. RealFrames(heard \o b.held) = RealFrames(heard) \cup RealFrames(b.held)
    BY <1>0, RealsJoined
  <2>11. RealFrames(q) = b.pending
    <3>1. ASSUME NEW n \in b.pending PROVE n \in RealFrames(q)
      <4>1. PICK i \in DOMAIN q : q[i].seq = n
        BY <2>2, <2>4, <3>1
      <4>2. q[i].real
        BY <2>4, <3>1, <4>1
      <4> QED BY <4>1, <4>2 DEF RealFrames
    <3>2. ASSUME NEW n \in RealFrames(q) PROVE n \in b.pending
      BY <2>4, <3>2 DEF RealFrames
    <3> QED BY <3>1, <3>2
  <2>12. accept = b.pending \cup RealFrames(heard \o b.held)
    BY DEF Pipe
  <2> QED BY <1>0, <2>6, <2>7, <2>8, <2>9, <2>10, <2>11, <2>12
<1> QED BY <1>1, <1>2

\* What a buffer accepted are numbers of its flow.
LEMMA AcceptedBelow ==
    ASSUME Depths, NEW max \in Nat, NEW lag, NEW b, NEW heard, NEW accept, Pipe(b, heard,
             accept, max, lag)
    PROVE  accept \subseteq 0..(max - 1)
<1> DEFINE all == heard \o Finish(b)
<1>1. all \in FramesBelow(max) /\ RealFrames(all) = accept
  BY FinishReleases
<1> HIDE DEF all
<1>2. ASSUME NEW n \in RealFrames(all) PROVE n \in 0..(max - 1)
  <2>1. PICK i \in DOMAIN all : n = all[i].seq
    BY <1>2 DEF RealFrames
  <2>2. all \in Seq([seq : 0..(max - 1), real : BOOLEAN]) /\ i \in 1..Len(all)
    BY <1>1, LenProperties DEF FramesBelow
  <2>3. all[i] \in [seq : 0..(max - 1), real : BOOLEAN]
    BY <2>2, ElementOfSeq
  <2> QED BY <2>1, <2>3
<1> QED BY <1>1, <1>2

-----------------------------------------------------------------------------
(***************************************************************************)
(* The receiving side, with its own flow, buffer and timers.                *)
(***************************************************************************)

FlowNumbers == Depths /\ Lag \in 1..ReorderDepth /\ EndMarkers \in Nat /\
  MaxSequence \in Nat /\ MaxAir \in Nat

\* The bounds of a flow, as the proofs use them.
LEMMA FlowNumbersHold == FlowNumbers
BY DepthsHold, ReceiverAssumption DEF FlowNumbers, ReceiverAssumption

SentInv ==
    /\ sequence \in 0..MaxSequence /\ sending \in BOOLEAN /\ ends \in 0..EndMarkers
    /\ history \in Seq(Sequence) /\ Len(history) <= Lag

AirInv == air \subseteq Datagram /\ IsFiniteSet(air) /\ Cardinality(air) <= MaxAir

\* This buffer, what it has released and what it has accepted.
PipeInv == Pipe(buf, out, arrived, MaxSequence, Lag)

\* The same of the buffer that was closed last: all that it accepted was released.
ClosedInv ==
    /\ closed.out \in FramesBelow(MaxSequence) /\ closed.arrived \subseteq Sequence
    /\ closed.arrived = RealFrames(closed.out)

\* While a recording is heard no timer with the current token is armed; what is
\* heard and not stopped has released something.
MicInv ==
    /\ mic \in BOOLEAN /\ driver \in BOOLEAN /\ fresh \in BOOLEAN /\
         drain \subseteq {"current", "old"}
    /\ fresh => "current" \notin drain
    /\ mic /\ fresh => out # <<>>

FlowInv == SentInv /\ AirInv /\ PipeInv /\ ClosedInv /\ MicInv

\* A flow starts with nothing sent, heard or armed.
LEMMA FlowStart ==
    ASSUME FlowNumbers, FlowInit
    PROVE  FlowInv
<1> USE DEF FlowInit
<1>1. SentInv
  <2>1. <<>> \in Seq(Sequence) /\ Len(<<>>) = 0
    BY EmptySeq
  <2>2. history \in Seq(Sequence) /\ Len(history) <= Lag
    BY <2>1 DEF FlowNumbers, Depths
  <2>3. sequence \in 0..MaxSequence /\ ends \in 0..EndMarkers
    BY DEF FlowNumbers
  <2>4. sending \in BOOLEAN
    OBVIOUS
  <2> QED BY <2>2, <2>3, <2>4 DEF SentInv
<1>2. AirInv
  <2>1. IsFiniteSet({}) /\ Cardinality({}) = 0
    BY FS_EmptySet
  <2> QED BY <2>1 DEF AirInv, FlowNumbers
<1>3. PipeInv
  BY PipeStarts DEF PipeInv, FlowNumbers
<1>4. ClosedInv
  BY EmptySeq, NothingIsReal DEF ClosedInv, FramesBelow
<1>5. MicInv
  BY DEF MicInv
<1> QED BY <1>1, <1>2, <1>3, <1>4, <1>5 DEF FlowInv

\* The datagrams that are built are datagrams.
LEMMA DatagramsAre ==
    /\ \A n \in Sequence, c \in Sequence \cup {Unset} : LiveDatagram(n, c) \in Datagram
    /\ \A n \in Sequence, k \in {"end", "test"} : Marker(k, n) \in Datagram
    /\ \A d \in Datagram : d.seq \in Sequence /\ d.copy \in Sequence \cup {Unset}
BY DEF Datagram, LiveDatagram, Marker

\* The device's part of the invariant.
LEMMA SentStep ==
    ASSUME FlowNumbers, SentInv, FlowNext
    PROVE  SentInv'
<1> USE DEF senderVars
<1>0. /\ history \in Seq(Sequence) /\ Len(history) \in Nat /\ Len(history) <= Lag /\
           sequence \in Nat
      /\ Lag \in Nat /\ Lag > 0 /\ MaxSequence \in Nat
  BY LenProperties DEF SentInv, FlowNumbers
<1>1. CASE StartRecording
  BY <1>1 DEF StartRecording, SentInv
<1>2. CASE SendFrame
  <2>1. sequence < MaxSequence /\ sequence' = sequence + 1 /\ UNCHANGED <<sending, ends>>
    BY <1>2 DEF SendFrame, Send
  <2>2. sequence \in Sequence
    BY <1>0, <2>1 DEF Sequence
  <2>3. history' = IF Len(history) < Lag THEN Append(history,
          sequence) ELSE Append(Tail(history), sequence)
    BY <1>2 DEF SendFrame, Remember
  <2>4. CASE Len(history) < Lag
    <3>1. history' \in Seq(Sequence) /\ Len(history') = Len(history) + 1
      BY <1>0, <2>2, <2>3, <2>4, AppendProperties
    <3> QED BY <1>0, <2>1, <2>4, <3>1 DEF SentInv
  <2>5. CASE ~(Len(history) < Lag)
    <3>1. history # <<>>
      BY <1>0, <2>5, EmptySeq
    <3>2. Tail(history) \in Seq(Sequence) /\ Len(Tail(history)) = Len(history) - 1
      BY <1>0, <3>1, HeadTailProperties
    <3>3. history' \in Seq(Sequence) /\ Len(history') = Len(Tail(history)) + 1
      BY <2>2, <2>3, <2>5, <3>2, AppendProperties
    <3> QED BY <1>0, <2>1, <2>5, <3>2, <3>3 DEF SentInv
  <2> QED BY <2>4, <2>5
<1>3. CASE OverrunFrame
  BY <1>0, <1>3 DEF OverrunFrame, SentInv
<1>4. CASE StopRecording
  <2>1. <<>> \in Seq(Sequence) /\ Len(<<>>) = 0
    BY EmptySeq
  <2>2. history' \in Seq(Sequence) /\ Len(history') <= Lag
    BY <1>0, <1>4, <2>1 DEF StopRecording
  <2>3. ends' \in 0..EndMarkers /\ sequence' \in 0..MaxSequence
    BY <1>4 DEF StopRecording, SentInv, FlowNumbers
  <2>4. sending' \in BOOLEAN
    BY <1>4 DEF StopRecording
  <2> QED BY <2>2, <2>3, <2>4 DEF SentInv
<1>5. CASE SendEnd
  BY <1>0, <1>5 DEF SendEnd, Send, SentInv, FlowNumbers
<1>6. CASE SendTest
  BY <1>0, <1>6 DEF SendTest, Send, SentInv
<1>7. CASE Network
  BY <1>7 DEF Network, Deliver, Lose, SentInv
<1>8. CASE DrainFires \/ OldDrainFires \/ DriverChanges
  BY <1>8 DEF DrainFires, OldDrainFires, DriverChanges, SentInv
<1> QED BY <1>1, <1>2, <1>3, <1>4, <1>5, <1>6, <1>7, <1>8 DEF FlowNext, Sender

\* The network's part.
LEMMA AirStep ==
    ASSUME FlowNumbers, SentInv, AirInv, FlowNext
    PROVE  AirInv'
<1>0. sequence \in Nat /\ MaxSequence \in Nat /\ MaxAir \in Nat /\ Cardinality(air) \in Nat
  BY FS_CardinalityType DEF SentInv, FlowNumbers, AirInv
<1>1. ASSUME NEW d \in Datagram, Send(d) PROVE AirInv'
  <2>1. air' = air \cup {d} /\ Cardinality(air) < MaxAir
    BY <1>1 DEF Send
  <2>2. IsFiniteSet(air \cup {d}) /\ Cardinality(air \cup {d}) <= Cardinality(air) + 1
    BY <1>0, FS_AddElement DEF AirInv
  <2>3. Cardinality(air \cup {d}) <= MaxAir
    BY <1>0, <2>1, <2>2, FS_CardinalityType
  <2> QED BY <1>1, <2>1, <2>2, <2>3 DEF AirInv
<1>2. ASSUME NEW d \in air, air' \in {air, air \ {d}} PROVE AirInv'
  <2>1. air' \in SUBSET air
    BY <1>2
  <2>2. IsFiniteSet(air') /\ Cardinality(air') <= Cardinality(air) /\ Cardinality(air') \in Nat
    BY <2>1, FS_Subset, FS_CardinalityType DEF AirInv
  <2> QED BY <1>0, <2>1, <2>2 DEF AirInv
<1>3. CASE SendFrame
  <2>1. sequence < MaxSequence
    BY <1>3 DEF SendFrame, Send
  <2>2. sequence \in Sequence
    BY <1>0, <2>1 DEF Sequence
  <2>3. Len(history) = Lag => history[1] \in Sequence
    <3>1. Lag \in Nat /\ Lag > 0
      BY DEF FlowNumbers, Depths
    <3>2. Len(history) = Lag => 1 \in 1..Len(history)
      BY <3>1
    <3> QED BY <3>2, ElementOfSeq DEF SentInv
  <2>4. PICK c \in Sequence \cup {Unset} : Send(LiveDatagram(sequence, c))
    BY <1>3, <2>3 DEF SendFrame
  <2> QED BY <1>1, <2>2, <2>4, DatagramsAre
<1>4. CASE SendEnd \/ SendTest
  <2>1. PICK k \in {"end", "test"} : Send(Marker(k, sequence))
    BY <1>4 DEF SendEnd, SendTest
  <2>2. sequence < MaxSequence
    BY <2>1 DEF Send
  <2>3. sequence \in Sequence
    BY <1>0, <2>2 DEF Sequence
  <2> QED BY <1>1, <2>1, <2>3, DatagramsAre
<1>5. CASE Network
  BY <1>2, <1>5 DEF Network, Deliver, Lose
<1>6. CASE UNCHANGED air
  BY <1>6 DEF AirInv
<1> QED BY <1>3, <1>4, <1>5, <1>6 DEF FlowNext, Sender, StartRecording,
       OverrunFrame, StopRecording, DrainFires, OldDrainFires,
       DriverChanges

\* A step delivers a datagram, or leaves the buffer alone.
LEMMA ReceiverSteps ==
    ASSUME AirInv, FlowNext
    PROVE  \/ \E d \in Datagram : ConsumeLive(d) /\ UNCHANGED driver
           \/ ConsumeEnd /\ UNCHANGED driver
           \/ ConsumeTest /\ UNCHANGED driver
           \/ /\ UNCHANGED <<buf, out, arrived, closed, fresh>>
              /\ \/ UNCHANGED <<mic, drain>>
                 \/ drain' \in SUBSET drain /\ (mic' = FALSE \/ mic' = mic)
              /\ driver' = driver \/ driver' = ~driver
              /\ mic /\ ~mic' => "current" \in drain
<1> USE DEF receiverVars
<1>1. CASE Sender
  BY <1>1 DEF Sender, StartRecording, SendFrame, Send, OverrunFrame,
     StopRecording, SendEnd, SendTest
<1>2. CASE Network
  <2>1. PICK d \in air : Deliver(d) \/ Lose(d)
    BY <1>2 DEF Network
  <2>2. d \in Datagram
    BY DEF AirInv
  <2> QED BY <2>1, <2>2 DEF Deliver, Lose
<1>3. CASE DrainFires
  BY <1>3 DEF DrainFires
<1>4. CASE OldDrainFires
  BY <1>4 DEF OldDrainFires
<1>5. CASE DriverChanges
  BY <1>5 DEF DriverChanges
<1> QED BY <1>1, <1>2, <1>3, <1>4, <1>5 DEF FlowNext

\* A live datagram goes through push twice at most, its copy first, and closes
\* nothing.
LEMMA Consumed ==
    ASSUME FlowNumbers, PipeInv, NEW d \in Datagram, ConsumeLive(d)
    PROVE  /\ PipeInv' /\ UNCHANGED closed
           /\ \E batch \in FramesBelow(MaxSequence) : Released(batch)
<1> DEFINE max == MaxSequence
           F == [seq : 0..(max - 1), real : BOOLEAN]
           first == IF d.copy = Unset THEN Result(buf, <<>>) ELSE Push(buf, d.copy)
           second == Push(first.buf, d.seq)
           some == arrived \cup (IF d.copy = Unset THEN {} ELSE IF Late(buf,
             d.copy) THEN {} ELSE {d.copy})
           both == some \cup (IF Late(first.buf, d.seq) THEN {} ELSE {d.seq})
<1>1. /\ max \in Nat /\ Lag \in Nat /\ Lag <= ReorderDepth /\ Depths
      /\ d.seq \in 0..(max - 1) /\ (d.copy # Unset => d.copy \in 0..(max - 1))
      /\ Pipe(buf, out, arrived, max, Lag)
  BY DatagramsAre DEF FlowNumbers, PipeInv, Depths, Sequence
<1>2. /\ buf' = second.buf
      /\ Released(first.batch \o second.batch)
      /\ arrived' = both /\ UNCHANGED closed
  <2>1. buf' = second.buf /\ Released(first.batch \o second.batch) /\ UNCHANGED closed
    BY DEF ConsumeLive
  <2>2. arrived' = both
    BY DEF ConsumeLive, Accepted
  <2> QED BY <2>1, <2>2
<1> HIDE DEF max, F, second
<1>3. first.batch \in FramesBelow(max) /\ Pipe(first.buf, out \o first.batch, some, max, Lag)
  <2>1. CASE d.copy = Unset
    <3>1. first.buf = buf /\ first.batch = <<>> /\ some = arrived
      BY <2>1 DEF Result
    <3>2. <<>> \in FramesBelow(max) /\ out \o <<>> = out
      BY <1>1, EmptySeq, ConcatEmptySeq DEF Pipe, FramesBelow
    <3> HIDE DEF first, some
    <3> QED BY <1>1, <3>1, <3>2
  <2>2. CASE d.copy # Unset
    <3>1. first = Push(buf, d.copy) /\ d.copy \in 0..(max - 1)
      BY <1>1, <2>2
    <3>2. some = arrived \cup (IF Late(buf, d.copy) THEN {} ELSE {d.copy})
      BY <2>2
    <3> HIDE DEF first, some
    <3> QED BY <1>1, <3>1, <3>2, PushKeeps
  <2> QED BY <2>1, <2>2
<1> HIDE DEF first, some
<1>4. second.batch \in FramesBelow(max) /\ Pipe(second.buf,
        (out \o first.batch) \o second.batch, both, max, Lag)
  <2>1. second = Push(first.buf, d.seq)
    BY DEF second
  <2> QED BY <1>1, <1>3, <2>1, PushKeeps
<1> HIDE DEF both
<1>5. /\ first.batch \o second.batch \in FramesBelow(max)
      /\ (out \o first.batch) \o second.batch = out \o (first.batch \o second.batch)
  <2>1. out \in Seq(F) /\ first.batch \in Seq(F) /\ second.batch \in Seq(F)
    BY <1>1, <1>3, <1>4 DEF Pipe, FramesBelow, F
  <2>2. ASSUME NEW x \in Seq(F), NEW y \in Seq(F), NEW z \in Seq(F)
        PROVE  (x \o y) \o z = x \o (y \o z)
    BY ConcatAssociative
  <2>3. first.batch \o second.batch \in Seq(F)
    BY <2>1, ConcatProperties, Zenon
  <2>4. (out \o first.batch) \o second.batch = out \o (first.batch \o second.batch)
    BY <2>1, <2>2
  <2>5. first.batch \o second.batch \in FramesBelow(max)
    BY <2>3 DEF FramesBelow, F
  <2> QED BY <2>4, <2>5
<1>6. out' = out \o (first.batch \o second.batch)
  BY <1>2 DEF Released
<1>7. PipeInv'
  BY <1>2, <1>4, <1>5, <1>6 DEF PipeInv, max
<1> QED BY <1>2, <1>5, <1>7 DEF max

\* The buffer's part, across every marker and probe.
LEMMA FlowStep ==
    ASSUME FlowNumbers, AirInv, PipeInv, ClosedInv, FlowNext
    PROVE  PipeInv' /\ ClosedInv'
<1>1. ASSUME NEW d \in Datagram, ConsumeLive(d) PROVE PipeInv' /\ ClosedInv'
  BY <1>1, Consumed DEF ClosedInv
<1>2. ASSUME ResetPipeline PROVE PipeInv'
  <2>1. buf' = EmptyBuffer /\ out' = <<>> /\ arrived' = {}
    BY <1>2 DEF ResetPipeline
  <2> QED BY <2>1, PipeStarts DEF PipeInv, FlowNumbers
<1>3. CASE ConsumeEnd
  <2>1. closed' = [out |-> out \o Finish(buf), arrived |-> arrived]
    BY <1>3 DEF ConsumeEnd
  <2>2. out \o Finish(buf) \in FramesBelow(MaxSequence) /\
          RealFrames(out \o Finish(buf)) = arrived
    BY FinishReleases DEF PipeInv, FlowNumbers
  <2>3. arrived \subseteq Sequence
    BY AcceptedBelow DEF PipeInv, FlowNumbers, Sequence
  <2>4. ClosedInv'
    BY <2>1, <2>2, <2>3 DEF ClosedInv
  <2> QED BY <1>2, <1>3, <2>4 DEF ConsumeEnd
<1>4. CASE ConsumeTest
  BY <1>2, <1>4 DEF ConsumeTest, ClosedInv
<1>5. CASE UNCHANGED <<buf, out, arrived, closed>>
  BY <1>5 DEF PipeInv, ClosedInv
<1> QED BY <1>1, <1>3, <1>4, <1>5, ReceiverSteps

\* What is heard of a recording cancels the drain of an earlier one.
LEMMA PlayedStep ==
    ASSUME FlowNumbers, AirInv, PipeInv, MicInv, FlowNext
    PROVE  /\ MicInv'
           /\ mic /\ ~mic' /\ fresh => out' # out
<1>0. \A x : Cancelled(x) \subseteq {"old"}
  BY DEF Cancelled
<1>1. ASSUME NEW d \in Datagram, ConsumeLive(d), UNCHANGED driver
      PROVE  MicInv' /\ (mic => mic')
  <2>1. PICK batch \in FramesBelow(MaxSequence) : Released(batch)
    BY <1>1, Consumed
  <2>2. out' = <<>> <=> out = <<>> /\ batch = <<>>
    <3> DEFINE F == [seq : 0..(MaxSequence - 1), real : BOOLEAN]
    <3>1. out \in Seq(F) /\ batch \in Seq(F)
      BY DEF PipeInv, Pipe, FramesBelow
    <3> HIDE DEF F
    <3>2. out' = out \o batch
      BY <2>1 DEF Released
    <3> QED BY <3>1, <3>2, ConcatEqualIffEmpty
  <2>3. CASE batch = <<>>
    <3>1. UNCHANGED drain /\ (fresh' <=> fresh) /\ (mic' <=> mic) /\ fresh' \in BOOLEAN /\
            mic' \in BOOLEAN
      BY <2>1, <2>3 DEF Released, MicInv
    <3> QED BY <1>1, <2>2, <3>1 DEF MicInv
  <2>4. CASE batch # <<>>
    <3>1. drain' \subseteq {"old"} /\ fresh' \in BOOLEAN /\ mic' \in BOOLEAN /\ (mic => mic')
      BY <1>0, <2>1, <2>4 DEF Released, MicInv
    <3> QED BY <1>1, <2>2, <2>4, <3>1 DEF MicInv
  <2> QED BY <2>3, <2>4
<1>2. CASE ConsumeEnd /\ UNCHANGED driver
  <2>1. out' = <<>> /\ fresh' = FALSE /\ mic' \in BOOLEAN /\ drain' \subseteq {"current", "old"}
    BY <1>0, <1>2 DEF ConsumeEnd, ResetPipeline, MicInv
  <2> QED BY <1>2, <2>1 DEF MicInv
<1>3. CASE ConsumeTest /\ UNCHANGED driver
  <2>1. out' = <<>> /\ UNCHANGED fresh /\ mic' = FALSE /\ drain' \subseteq {"old"}
    BY <1>0, <1>3 DEF ConsumeTest, ResetPipeline
  <2> QED BY <1>3, <2>1 DEF MicInv
<1>4. CASE /\ UNCHANGED <<buf, out, arrived, closed, fresh>>
           /\ \/ UNCHANGED <<mic, drain>>
              \/ drain' \in SUBSET drain /\ (mic' = FALSE \/ mic' = mic)
           /\ driver' = driver \/ driver' = ~driver
           /\ mic /\ ~mic' => "current" \in drain
  <2>1. drain' \subseteq {"current", "old"} /\ (fresh => "current" \notin drain')
    BY <1>4 DEF MicInv
  <2>0. mic \in BOOLEAN /\ (mic' = FALSE \/ mic' = mic)
    BY <1>4 DEF MicInv
  <2>2. mic' \in BOOLEAN /\ (mic' => mic)
    <3>1. CASE mic' = FALSE
      BY <3>1
    <3>2. CASE mic' = mic
      BY <2>0, <3>2
    <3> QED BY <2>0, <3>1, <3>2
  <2>4. mic /\ fresh => mic'
    BY <1>4 DEF MicInv
  <2>3. driver' \in BOOLEAN
    BY <1>4 DEF MicInv
  <2> QED BY <1>4, <2>1, <2>2, <2>3, <2>4 DEF MicInv
<1> QED BY <1>1, <1>2, <1>3, <1>4, ReceiverSteps

\* Every step, and no stop of a microphone that is heard.
LEMMA FlowInvStep ==
    ASSUME FlowNumbers, FlowInv, [FlowNext]_flowVars
    PROVE  FlowInv' /\ [mic /\ ~mic' /\ fresh => out' # out]_flowVars
<1>1. CASE FlowNext
  BY <1>1, SentStep, AirStep, FlowStep, PlayedStep DEF FlowInv
<1>2. CASE UNCHANGED flowVars
  BY <1>2 DEF flowVars, FlowInv, SentInv, AirInv, PipeInv, ClosedInv, MicInv
<1> QED BY <1>1, <1>2

\* The invariant of the receiving side.
THEOREM ReceiverInvariance == FlowSpec => []FlowInv
<1>1. FlowInit => FlowInv
  BY FlowNumbersHold, FlowStart
<1>2. FlowInv /\ [FlowNext]_flowVars => FlowInv'
  BY FlowNumbersHold, FlowInvStep
<1> QED BY <1>1, <1>2, PTL DEF FlowSpec

\* The invariant implies what the run checks of the buffer.
LEMMA BufferIsRight ==
    ASSUME FlowNumbers, FlowInv
    PROVE  BufferInvariant
<1>1. FlowTypeOK
  <2>1. Frames = FramesBelow(MaxSequence)
    BY DEF Frames, FramesBelow, Sequence
  <2>2. /\ buf.next \in 0..MaxSequence \cup {Unset} /\ buf.highest \in Sequence \cup {Unset}
        /\ buf.pending \subseteq Sequence /\ buf.started \in BOOLEAN
        /\ buf.held \in Frames /\ Len(buf.held) < StartupFrames /\ out \in Frames
    BY <2>1 DEF FlowInv, PipeInv, Pipe, Buffers, Reservoir, Sequence
  <2>3. arrived \subseteq Sequence
    BY AcceptedBelow DEF FlowInv, PipeInv, FlowNumbers, Sequence
  <2> QED BY <2>1, <2>2, <2>3 DEF FlowTypeOK, FlowInv, SentInv, AirInv, ClosedInv, MicInv
<1>2. WindowIsBounded
  <2>1. CASE buf.next = Unset
    <3>1. buf.pending = {}
      BY <2>1 DEF FlowInv, PipeInv, Pipe
    <3>2. Cardinality(buf.pending) = 0
      BY <3>1, FS_EmptySet
    <3> QED BY <2>1, <3>2 DEF WindowIsBounded, FlowNumbers, Depths
  <2>2. CASE buf.next # Unset
    <3>1. Window(buf) /\ buf.highest - buf.next < ReorderDepth
      BY <2>2 DEF FlowInv, PipeInv, Pipe
    <3>2. buf.next \in Int /\ buf.highest \in Int /\ buf.next <= buf.highest /\
            buf.pending \in SUBSET (buf.next..buf.highest)
      BY <3>1 DEF Window
    <3>3. /\ IsFiniteSet(buf.next..buf.highest)
          /\ Cardinality(buf.next..buf.highest) = buf.highest - buf.next + 1
      BY <3>2, FS_Interval
    <3>4. Cardinality(buf.pending) <= buf.highest - buf.next + 1 /\
            Cardinality(buf.pending) \in Nat
      BY <3>2, <3>3, FS_Subset, FS_CardinalityType
    <3>5. Cardinality(buf.pending) <= ReorderDepth
      BY <3>1, <3>2, <3>4 DEF FlowNumbers, Depths
    <3> QED BY <3>1, <3>5 DEF WindowIsBounded
  <2> QED BY <2>1, <2>2
<1>3. ConcealedAfterCopy
  BY DEF ConcealedAfterCopy, ToSet, FlowInv, PipeInv, Pipe, NoCopyLeft
<1>4. PlayoutHasNoHoles
  BY DEF PlayoutHasNoHoles, FlowInv, PipeInv, Pipe, NoHoles
<1> QED BY <1>1, <1>2, <1>3, <1>4 DEF BufferInvariant

\* And of the frames it accepted.
LEMMA NothingIsLost ==
    ASSUME FlowInv
    PROVE  NoFrameInTimeIsLost /\ EndReleasesAll
<1>1. RealFrames(out \o buf.held) = RealFrames(out) \cup RealFrames(buf.held)
  <2>1. out \in FramesBelow(MaxSequence) /\ buf.held \in FramesBelow(MaxSequence)
    BY DEF FlowInv, PipeInv, Pipe, Buffers
  <2> QED BY <2>1, RealsJoined DEF FramesBelow
<1>2. arrived = buf.pending \cup RealFrames(out \o buf.held)
  BY DEF FlowInv, PipeInv, Pipe
<1>3. NoFrameInTimeIsLost
  BY <1>1, <1>2 DEF NoFrameInTimeIsLost
<1>4. EndReleasesAll
  BY DEF EndReleasesAll, FlowInv, ClosedInv
<1> QED BY <1>3, <1>4

\* Between the network and the driver: the window and the reservoir bounded, the
\* order kept, no hole that could have been concealed, and no frame concealed
\* while a copy could still come (AudioJitterBuffer.push).
THEOREM PlayoutIsInOrder == FlowSpec => []BufferInvariant
<1>1. FlowInv => BufferInvariant
  BY FlowNumbersHold, BufferIsRight
<1> QED BY <1>1, ReceiverInvariance, PTL

\* A frame that reached the buffer before its deadline is waiting or was released
\* as it is, however datagrams are lost, duplicated and reordered.
THEOREM FramesInTimeArePlayed == FlowSpec => []NoFrameInTimeIsLost
<1>1. FlowInv => NoFrameInTimeIsLost
  BY NothingIsLost
<1> QED BY <1>1, ReceiverInvariance, PTL

\* An end marker releases all that was accepted, the reservoir included
\* (AudioJitterBuffer.finish).
THEOREM TheEndReleasesTheRest == FlowSpec => []EndReleasesAll
<1>1. FlowInv => EndReleasesAll
  BY NothingIsLost
<1> QED BY <1>1, ReceiverInvariance, PTL

\* No drain timer of an earlier recording stops the microphone of a later one
\* that is heard (the token of stopMicrophoneAfterDrain).
THEOREM OldDrainsAreHarmless == FlowSpec => DrainSparesNewRecording
<1>1. FlowInv /\ [FlowNext]_flowVars => [mic /\ ~mic' /\ fresh => out' # out]_flowVars
  BY FlowNumbersHold, FlowInvStep
<1> QED BY <1>1, ReceiverInvariance, PTL DEF FlowSpec, DrainSparesNewRecording
=============================================================================
