------------------------ MODULE FirmwareUpdateProofs ------------------------
(***************************************************************************)
(* The device implements UpdateContract, for every set of versions, every   *)
(* image and any number of power losses.                                   *)
(***************************************************************************)
EXTENDS FirmwareUpdate, TLAPS

\* The running image has not been confirmed.
OnTrial == run # "factory" /\ entry[run] = "pending"

\* The states in which an update writes to the slot that is not running.
Writing == {"write", "finish", "restart"}

(***************************************************************************)
(* otadata between two boots.  Only the running image is on trial; only an  *)
(* image just installed is new; a confirmed image is the newest one that is *)
(* usable.                                                                 *)
(***************************************************************************)
OnlyRunPending == \A s \in OtaSlot : entry[s] = "pending" => s = run

OnlyInstalledNew ==
    \A s \in OtaSlot : entry[s] = "new" <=> (pc = "restart" /\ s = Target)

RunIsUsable == run # "factory" => entry[run] \in {"pending", "valid"}

FactoryIsAlone ==
    run = "factory" => \A s \in OtaSlot : entry[s] \in {"empty", "aborted", "new"}

RunIsNewest ==
    run # "factory" => \/ newest = run
                       \/ entry[run] = "valid" /\ entry[Other(run)] \in {"aborted", "new"}

InstalledIsNewest ==
    pc = "restart" => newest = Target /\ image[Target] = candidate

(***************************************************************************)
(* The images: the one running and the one to come back to.                *)
(***************************************************************************)
RunIsComplete == image["factory"] = 1 /\ image[run] \in Version

ConfirmedIsGood == ~OnTrial => image[run] \in Good

\* The other slot, where the device comes back to from a trial.
FallbackIsGood ==
    OnTrial => \/ entry[Other(run)] \in {"empty", "aborted"}
               \/ /\ entry[Other(run)] = "valid"
                  /\ image[Other(run)] \in Good /\ image[Other(run)] <= image[run]

(***************************************************************************)
(* The update: it writes only for a confirmed image, and only a newer one.  *)
(***************************************************************************)
NoUpdateIdle == ~updating => pc = "none"
WritesConfirmed == pc \in Writing => ~OnTrial
CandidateIsNewer == pc \in Writing \cup {"begin"} => candidate > image[run]

IInv ==
    /\ TypeOK
    /\ OnlyRunPending /\ OnlyInstalledNew /\ RunIsUsable /\ FactoryIsAlone
    /\ RunIsNewest /\ InstalledIsNewest
    /\ RunIsComplete /\ ConfirmedIsGood /\ FallbackIsGood
    /\ NoUpdateIdle /\ WritesConfirmed /\ CandidateIsNewer

-----------------------------------------------------------------------------
(***************************************************************************)
(* Types.                                                                  *)
(***************************************************************************)
LEMMA FactoryVersion == 1 \in Version /\ Versions \in Nat \ {0} /\ PowerLosses \in Nat
BY UpdateAssumption DEF Version

LEMMA InitTypeOK == Init => TypeOK
<1> SUFFICES ASSUME Init PROVE TypeOK
  OBVIOUS
<1> USE FactoryVersion DEF Version
<1>1. image \in [Slot -> 0..Versions] /\ entry \in [OtaSlot -> States]
  BY DEF Init, States
<1>2. newest \in OtaSlot /\ run \in Slot
  BY DEF Init, Slot, OtaSlot
<1>3. old \in BOOLEAN /\ updating \in BOOLEAN /\ capture \in BOOLEAN /\ pc = "none"
  BY DEF Init
<1>4. attempt \in 1..3 /\ request \in Version /\ candidate \in 0..Versions /\ losses \in 0..PowerLosses
  BY DEF Init
<1>5. ps = "min_modem" /\ previous = "min_modem"
  BY DEF Init
<1> QED
  BY <1>1, <1>2, <1>3, <1>4, <1>5 DEF TypeOK

\* The bootloader chooses a slot, and leaves the states it may leave.
LEMMA BootType ==
    ASSUME TypeOK, Boot
    PROVE  /\ run' \in Slot /\ run' = Selected(Aborted)
           /\ entry' \in [OtaSlot -> States]
           /\ image' = image /\ newest' = newest /\ pc' = "none" /\ updating' = FALSE
<1>1. run' \in Slot /\ run' = Selected(Aborted)
  BY DEF Boot, TypeOK, Selected, Other, Slot, OtaSlot
<1>2. entry' \in [OtaSlot -> States]
  BY DEF Boot, TypeOK, Aborted, States
<1> QED
  BY <1>1, <1>2 DEF Boot

LEMMA NextTypeOK ==
    ASSUME TypeOK, [Next]_vars
    PROVE  TypeOK'
<1> USE FactoryVersion DEF TypeOK
<1>1. CASE Boot /\ losses' \in 0..PowerLosses
  <2>1. old' \in BOOLEAN /\ updating' \in BOOLEAN /\ capture' \in BOOLEAN /\ pc' = "none"
    BY <1>1 DEF Boot
  <2>2. attempt' \in 1..3 /\ request' \in Version /\ candidate' \in 0..Versions
    BY <1>1 DEF Boot, Version
  <2>3. ps' = "min_modem" /\ previous' = "min_modem"
    BY <1>1 DEF Boot
  <2> QED
    BY <1>1, <2>1, <2>2, <2>3, BootType
<1>2. CASE PowerLoss
  BY <1>2, <1>1 DEF PowerLoss
<1>3. CASE Crash
  BY <1>3, <1>1 DEF Crash
<1>4. CASE Audio
  BY <1>4 DEF Audio, SetCaptureEnabled, MarkReceiverReady, ApplyOffer, PsFor, flash, task
<1>5. CASE Command
  <2>1. PICK version \in Version, ready \in Readiness : OTAStart(version, ready)
    BY <1>5 DEF Command
  <2> QED
    BY <2>1 DEF OTAStart, FirmwareUpdateStart, SetCaptureEnabled, PsFor, flash, task
<1>6. CASE TenSeconds
  BY <1>6 DEF TenSeconds, flash, task
<1>7. CASE Confirm
  <2>1. entry' \in [OtaSlot -> States]
    BY <1>7 DEF Confirm, States
  <2> QED
    BY <1>7, <2>1 DEF Confirm, task
<1>8. CASE UpdateTask
  <2> USE DEF At, Goto, quiet, flash
  <2>1. CASE Save
    BY <2>1 DEF Save
  <2>2. CASE KeepAwake
    BY <2>2 DEF KeepAwake
  <2>3. ASSUME NEW version \in 0..Versions, Connect(version) PROVE TypeOK'
    BY <2>3 DEF Connect
  <2>4. ASSUME NEW transport \in BOOLEAN, ConnectFails(transport) PROVE TypeOK'
    BY <2>4 DEF ConnectFails
  <2>5. CASE RetryDelayOver \/ Describe \/ Write
    BY <2>5 DEF RetryDelayOver, Describe, Write
  <2>6. CASE BeginWrite
    BY <2>6 DEF BeginWrite
  <2>7. CASE Finish
    <3>1. Target \in OtaSlot
      BY DEF Target, OtaSlot
    <3>2. image' \in [Slot -> 0..Versions] /\ entry' \in [OtaSlot -> States] /\ newest' \in OtaSlot
      BY <2>7, <3>1 DEF Finish, States
    <3> QED
      BY <2>7, <3>2 DEF Finish
  <2>8. CASE Restart
    BY <2>8, <1>1 DEF Restart
  <2>9. CASE Restore \/ Release
    BY <2>9 DEF Restore, Release
  <2> QED
    BY <1>8, <2>1, <2>2, <2>3, <2>4, <2>5, <2>6, <2>7, <2>8, <2>9 DEF UpdateTask
<1>9. CASE UNCHANGED vars
  BY <1>9 DEF vars, flash, task
<1> QED
  BY <1>2, <1>3, <1>4, <1>5, <1>6, <1>7, <1>8, <1>9 DEF Next

\* TypeOK holds in every reachable state.
THEOREM UpdateTypeCorrect == Spec => []TypeOK
BY InitTypeOK, NextTypeOK, PTL DEF Spec

-----------------------------------------------------------------------------
(***************************************************************************)
(* The inductive invariant.                                                *)
(***************************************************************************)
LEMMA InitIInv == Init => IInv
<1> SUFFICES ASSUME Init PROVE IInv
  OBVIOUS
<1>1. TypeOK
  BY InitTypeOK
<1>2. \A s \in OtaSlot : entry[s] = "empty"
  BY DEF Init
<1>3. run = "factory" /\ pc = "none" /\ image["factory"] = 1
  BY DEF Init, Slot
<1>4. OnlyRunPending /\ OnlyInstalledNew /\ FactoryIsAlone
  BY <1>2, <1>3 DEF OnlyRunPending, OnlyInstalledNew, FactoryIsAlone
<1>5. RunIsUsable /\ RunIsNewest /\ InstalledIsNewest
  BY <1>3 DEF RunIsUsable, RunIsNewest, InstalledIsNewest
<1>6. RunIsComplete /\ ConfirmedIsGood /\ FallbackIsGood
  BY <1>3, UpdateAssumption DEF RunIsComplete, ConfirmedIsGood, FallbackIsGood, OnTrial, Version
<1>7. NoUpdateIdle /\ WritesConfirmed /\ CandidateIsNewer
  BY <1>3 DEF NoUpdateIdle, WritesConfirmed, CandidateIsNewer, Writing
<1> QED
  BY <1>1, <1>4, <1>5, <1>6, <1>7 DEF IInv

\* A step that leaves the flash and the running slot alone, and does not let
\* the update come nearer to writing.
LEMMA CalmStep ==
    ASSUME IInv, TypeOK', UNCHANGED <<flash, run>>, NoUpdateIdle',
           \/ pc' = pc /\ candidate' = candidate
           \/ pc # "restart" /\ pc' \notin Writing \cup {"begin"}
    PROVE  IInv'
<1> USE DEF flash, Target, OnTrial, Writing
<1>1. OnlyRunPending' /\ RunIsUsable' /\ FactoryIsAlone' /\ RunIsComplete'
  BY DEF IInv, OnlyRunPending, RunIsUsable, FactoryIsAlone, RunIsComplete
<1>2. RunIsNewest' /\ ConfirmedIsGood' /\ FallbackIsGood'
  BY DEF IInv, RunIsNewest, Other, ConfirmedIsGood, FallbackIsGood
<1>3. OnlyInstalledNew' /\ InstalledIsNewest'
  BY DEF IInv, OnlyInstalledNew, InstalledIsNewest
<1>4. WritesConfirmed' /\ CandidateIsNewer'
  BY DEF IInv, WritesConfirmed, CandidateIsNewer
<1> QED
  BY <1>1, <1>2, <1>3, <1>4 DEF IInv

\* The slot the bootloader takes: the one just installed, the one to come back
\* to from a trial, or again the one that runs.
LEMMA Selection ==
    ASSUME IInv
    PROVE  /\ pc = "restart" => Selected(Aborted) = Target
           /\ OnTrial => Selected(Aborted) =
                IF entry[Other(run)] = "valid" THEN Other(run) ELSE "factory"
           /\ ~OnTrial /\ pc # "restart" => Selected(Aborted) = run
<1> USE DEF IInv, TypeOK, OtaSlot, Slot, Selected, Usable, Aborted, Other, Target, OnTrial
<1>1. ASSUME pc = "restart" PROVE Selected(Aborted) = Target
  BY <1>1 DEF OnlyInstalledNew, InstalledIsNewest
<1>2. ASSUME OnTrial
      PROVE  Selected(Aborted) = IF entry[Other(run)] = "valid" THEN Other(run) ELSE "factory"
  BY <1>2 DEF RunIsNewest, FallbackIsGood
<1>3. ASSUME ~OnTrial, pc # "restart" PROVE Selected(Aborted) = run
  <2>1. CASE run = "factory"
    BY <1>3, <2>1 DEF FactoryIsAlone, OnlyInstalledNew
  <2>2. CASE run # "factory"
    BY <1>3, <2>2 DEF RunIsUsable, RunIsNewest, OnlyInstalledNew
  <2> QED
    BY <2>1, <2>2
<1> QED
  BY <1>1, <1>2, <1>3

\* What a boot leaves behind, in the three situations it can find.
LEMMA BootCases ==
    ASSUME IInv, Boot
    PROVE  /\ pc = "restart" =>
                /\ run' = Target /\ entry'[Target] = "pending"
                /\ entry'[Other(Target)] = entry[Other(Target)]
           /\ OnTrial =>
                /\ run' = IF entry[Other(run)] = "valid" THEN Other(run) ELSE "factory"
                /\ entry'[run] = "aborted" /\ entry'[Other(run)] = entry[Other(run)]
           /\ ~OnTrial /\ pc # "restart" => run' = run /\ entry' = entry
           /\ image' = image /\ newest' = newest /\ pc' = "none" /\ updating' = FALSE
<1> USE DEF IInv
<1>0. image' = image /\ newest' = newest /\ pc' = "none" /\ updating' = FALSE /\ run' = Selected(Aborted)
  BY DEF Boot
<1>1. \A s \in OtaSlot : Aborted[s] = IF s = run THEN IF entry[s] = "pending" THEN "aborted" ELSE entry[s]
                                      ELSE entry[s]
  BY DEF Aborted, OnlyRunPending
<1>2. \A s \in OtaSlot : entry'[s] = IF s = run' /\ Aborted[s] = "new" THEN "pending" ELSE Aborted[s]
  BY DEF Boot
<1>3. ASSUME pc = "restart"
      PROVE  /\ run' = Target /\ entry'[Target] = "pending"
             /\ entry'[Other(Target)] = entry[Other(Target)]
  <2>1. Target \in OtaSlot /\ Other(Target) \in OtaSlot /\ Target # Other(Target) /\ Target # run
    BY DEF Target, Other, OtaSlot
  <2>2. entry[Target] = "new" /\ ~OnTrial /\ run' = Target
    BY <1>0, <1>3, <2>1, Selection DEF OnlyInstalledNew, WritesConfirmed, Writing
  <2> QED
    BY <1>1, <1>2, <2>1, <2>2 DEF OnTrial, OtaSlot
<1>4. ASSUME OnTrial
      PROVE  /\ run' = IF entry[Other(run)] = "valid" THEN Other(run) ELSE "factory"
             /\ entry'[run] = "aborted" /\ entry'[Other(run)] = entry[Other(run)]
  <2>1. run \in OtaSlot /\ Other(run) \in OtaSlot /\ run # Other(run) /\ run' # run
    BY <1>0, <1>4, Selection DEF TypeOK, OnTrial, Slot, OtaSlot, Other
  <2>2. entry[Other(run)] # "new"
    BY <1>4, <2>1 DEF OnlyInstalledNew, WritesConfirmed, Writing
  <2> QED
    BY <1>0, <1>1, <1>2, <1>4, <2>1, <2>2, Selection DEF OnTrial
<1>5. ASSUME ~OnTrial, pc # "restart" PROVE run' = run /\ entry' = entry
  <2>1. \A s \in OtaSlot : entry[s] # "new" /\ entry[s] # "pending"
    BY <1>5 DEF OnlyInstalledNew, OnlyRunPending, OnTrial, OtaSlot
  <2>2. \A s \in OtaSlot : entry'[s] = entry[s]
    BY <1>1, <1>2, <2>1
  <2>3. entry \in [OtaSlot -> States] /\ entry' \in [OtaSlot -> States]
    BY BootType DEF TypeOK
  <2> QED
    BY <1>0, <1>5, <2>2, <2>3, Selection
<1> QED
  BY <1>0, <1>3, <1>4, <1>5

LEMMA BootStep ==
    ASSUME IInv, Boot, TypeOK'
    PROVE  IInv'
<1> USE DEF IInv, OtaSlot, Slot
<1>0. NoUpdateIdle' /\ WritesConfirmed' /\ CandidateIsNewer' /\ InstalledIsNewest'
  BY BootCases DEF NoUpdateIdle, WritesConfirmed, CandidateIsNewer, Writing, InstalledIsNewest
<1>1. CASE pc = "restart"
  <2>1. ~OnTrial /\ entry[Target] = "new" /\ newest = Target /\ image[Target] = candidate
    BY <1>1 DEF WritesConfirmed, Writing, OnlyInstalledNew, InstalledIsNewest, Target
  <2>2. /\ run' = Target /\ entry'[Target] = "pending" /\ image' = image /\ newest' = Target
        /\ entry'[Other(Target)] = entry[Other(Target)] /\ pc' = "none"
    BY <1>1, <2>1, BootCases
  <2>3. candidate > image[run] /\ image[run] \in Good /\ candidate \in Version
    BY <1>1, <2>1 DEF CandidateIsNewer, Writing, ConfirmedIsGood, RunIsComplete, TypeOK, Version
  <2>4. \/ run # "factory" /\ Other(Target) = run /\ entry[run] = "valid"
        \/ run = "factory" /\ entry[Other(Target)] \in {"empty", "aborted"}
    BY <1>1, <2>1 DEF Target, Other, OnTrial, RunIsUsable, FactoryIsAlone, OnlyInstalledNew, TypeOK
  <2>5. OnlyRunPending' /\ OnlyInstalledNew'
    BY <2>2, <2>4 DEF OnlyRunPending, OnlyInstalledNew, Target, Other
  <2>6. RunIsUsable' /\ FactoryIsAlone' /\ RunIsNewest'
    BY <2>2 DEF RunIsUsable, FactoryIsAlone, RunIsNewest, Target
  <2>7. RunIsComplete' /\ ConfirmedIsGood'
    BY <2>1, <2>2, <2>3 DEF RunIsComplete, ConfirmedIsGood, OnTrial, Target
  <2>8. FallbackIsGood'
    <3>0. image[run] \in Version
      BY <2>3, UpdateAssumption
    <3>1. image[run] \in Int /\ candidate \in Int /\ image[run] <= candidate
      BY <2>3, <3>0, FactoryVersion DEF Version
    <3> QED
      BY <2>1, <2>2, <2>3, <2>4, <3>1 DEF FallbackIsGood
  <2> QED
    BY <1>0, <2>5, <2>6, <2>7, <2>8
<1>2. CASE OnTrial
  <2>1. pc # "restart" /\ run \in OtaSlot /\ Other(run) \in OtaSlot /\ Other(Other(run)) = run
    BY <1>2 DEF WritesConfirmed, Writing, OnTrial, TypeOK, Other
  <2>2. /\ run' = IF entry[Other(run)] = "valid" THEN Other(run) ELSE "factory"
        /\ entry'[run] = "aborted" /\ entry'[Other(run)] = entry[Other(run)]
        /\ image' = image /\ pc' = "none"
    BY <1>2, BootCases
  <2>3. entry[Other(run)] \in {"empty", "aborted", "valid"}
    BY <1>2 DEF FallbackIsGood
  <2>4. OnlyRunPending' /\ OnlyInstalledNew' /\ RunIsUsable' /\ FactoryIsAlone'
    BY <2>1, <2>2, <2>3 DEF OnlyRunPending, OnlyInstalledNew, RunIsUsable, FactoryIsAlone, Other
  <2>5. RunIsNewest'
    BY <2>1, <2>2, <2>3 DEF RunIsNewest
  <2>6. RunIsComplete' /\ ConfirmedIsGood' /\ FallbackIsGood'
    BY <1>2, <2>1, <2>2, <2>3, UpdateAssumption
       DEF RunIsComplete, ConfirmedIsGood, FallbackIsGood, OnTrial, Version
  <2> QED
    BY <1>0, <2>4, <2>5, <2>6
<1>3. CASE ~OnTrial /\ pc # "restart"
  <2>1. run' = run /\ entry' = entry /\ image' = image /\ newest' = newest /\ pc' = "none"
    BY <1>3, BootCases
  <2> QED
    BY <1>0, <1>3, <2>1, CalmStep DEF flash, Writing
<1> QED
  BY <1>1, <1>2, <1>3

\* Nothing that matters changes while an image is confirmed, or a slot erased:
\* the running slot is neither the target nor on trial.
LEMMA TargetIsOther ==
    ASSUME IInv, ~OnTrial
    PROVE  /\ Target \in OtaSlot /\ Target # run /\ Target # "factory"
           /\ run # "factory" => Other(run) = Target /\ entry[run] = "valid"
BY DEF IInv, TypeOK, Slot, OtaSlot, Target, Other, OnTrial, RunIsUsable

LEMMA ConfirmStep ==
    ASSUME IInv, Confirm, TypeOK'
    PROVE  IInv'
<1> USE DEF IInv, Confirm, task
<1>1. /\ run \in OtaSlot /\ OnTrial /\ pc # "restart" /\ entry'[run] = "valid"
      /\ \A s \in OtaSlot : s # run => entry'[s] = entry[s]
  BY DEF TypeOK, Slot, OtaSlot, OnTrial, WritesConfirmed, Writing
<1>2. OnlyRunPending' /\ OnlyInstalledNew' /\ RunIsUsable' /\ FactoryIsAlone'
  BY <1>1 DEF OnlyRunPending, OnlyInstalledNew, Target, RunIsUsable, FactoryIsAlone, OnTrial
<1>3. RunIsNewest' /\ InstalledIsNewest' /\ RunIsComplete'
  BY <1>1 DEF RunIsNewest, OnTrial, InstalledIsNewest, RunIsComplete
<1>4. ConfirmedIsGood' /\ FallbackIsGood'
  BY <1>1 DEF ConfirmedIsGood, FallbackIsGood, OnTrial
<1>5. NoUpdateIdle' /\ WritesConfirmed' /\ CandidateIsNewer'
  BY <1>1 DEF NoUpdateIdle, WritesConfirmed, CandidateIsNewer, OnTrial
<1> QED
  BY <1>2, <1>3, <1>4, <1>5

LEMMA DescribeStep ==
    ASSUME IInv, Describe, TypeOK'
    PROVE  IInv'
<1> USE DEF Describe, At, Goto, quiet, flash
<1>1. CASE ~Accepts
  <2>1. NoUpdateIdle'
    BY <1>1 DEF IInv, NoUpdateIdle
  <2> QED
    BY <1>1, <2>1, CalmStep DEF Writing
<1>2. CASE Accepts
  <2> USE DEF IInv, Target, OnTrial
  <2>1. pc = "describe" /\ pc' = "begin" /\ candidate' > image'[run']
    BY <1>2 DEF Accepts
  <2>2. OnlyRunPending' /\ OnlyInstalledNew' /\ RunIsUsable' /\ FactoryIsAlone' /\ RunIsComplete'
    BY <2>1 DEF OnlyRunPending, OnlyInstalledNew, RunIsUsable, FactoryIsAlone, RunIsComplete
  <2>3. RunIsNewest' /\ InstalledIsNewest' /\ ConfirmedIsGood' /\ FallbackIsGood'
    BY <2>1 DEF RunIsNewest, Other, InstalledIsNewest, ConfirmedIsGood, FallbackIsGood
  <2>4. NoUpdateIdle' /\ WritesConfirmed' /\ CandidateIsNewer'
    BY <2>1 DEF NoUpdateIdle, WritesConfirmed, CandidateIsNewer, Writing
  <2> QED
    BY <2>2, <2>3, <2>4
<1> QED
  BY <1>1, <1>2

LEMMA BeginWriteStep ==
    ASSUME IInv, BeginWrite, TypeOK'
    PROVE  IInv'
<1> USE DEF BeginWrite, At, Goto
<1>1. CASE OnTrial
  <2>1. UNCHANGED <<flash, run>> /\ NoUpdateIdle' /\ pc = "begin" /\ pc' = "restore"
    BY <1>1 DEF OnTrial, flash, IInv, NoUpdateIdle
  <2> QED
    BY <2>1, CalmStep DEF Writing
<1>2. CASE ~OnTrial
  <2> USE DEF IInv
  <2>1. /\ pc = "begin" /\ pc' = "write" /\ image' = [image EXCEPT ![Target] = 0]
        /\ UNCHANGED <<entry, newest, run, updating, candidate>>
    BY <1>2 DEF OnTrial
  <2>2. image'[run] = image[run] /\ image'["factory"] = image["factory"]
    BY <1>2, <2>1, TargetIsOther DEF TypeOK, Slot, OtaSlot
  <2>3. OnlyRunPending' /\ OnlyInstalledNew' /\ RunIsUsable' /\ FactoryIsAlone'
    BY <2>1 DEF OnlyRunPending, OnlyInstalledNew, Target, RunIsUsable, FactoryIsAlone
  <2>4. RunIsNewest' /\ InstalledIsNewest' /\ RunIsComplete' /\ ConfirmedIsGood' /\ FallbackIsGood'
    BY <1>2, <2>1, <2>2 DEF RunIsNewest, Other, InstalledIsNewest, RunIsComplete,
                             ConfirmedIsGood, FallbackIsGood, OnTrial
  <2>5. NoUpdateIdle' /\ WritesConfirmed' /\ CandidateIsNewer'
    BY <1>2, <2>1, <2>2 DEF NoUpdateIdle, WritesConfirmed, CandidateIsNewer, Writing, OnTrial
  <2> QED
    BY <2>3, <2>4, <2>5
<1> QED
  BY <1>1, <1>2

LEMMA WriteStep ==
    ASSUME IInv, Write, TypeOK'
    PROVE  IInv'
<1> USE DEF Write, At, Goto, quiet, flash
<1>1. CASE pc' = "restore"
  BY <1>1, CalmStep DEF IInv, NoUpdateIdle, Writing
<1>2. CASE pc' = "finish"
  <2> USE DEF IInv, Target, OnTrial
  <2>1. pc = "write" /\ pc' = "finish" /\ UNCHANGED <<image, entry, newest, run, candidate, updating>>
    BY <1>2
  <2>2. OnlyRunPending' /\ OnlyInstalledNew' /\ RunIsUsable' /\ FactoryIsAlone' /\ RunIsComplete'
    BY <2>1 DEF OnlyRunPending, OnlyInstalledNew, RunIsUsable, FactoryIsAlone, RunIsComplete
  <2>3. RunIsNewest' /\ InstalledIsNewest' /\ ConfirmedIsGood' /\ FallbackIsGood'
    BY <2>1 DEF RunIsNewest, Other, InstalledIsNewest, ConfirmedIsGood, FallbackIsGood
  <2>4. NoUpdateIdle' /\ WritesConfirmed' /\ CandidateIsNewer'
    BY <2>1 DEF NoUpdateIdle, WritesConfirmed, CandidateIsNewer, Writing
  <2> QED
    BY <2>2, <2>3, <2>4
<1> QED
  BY <1>1, <1>2

LEMMA FinishStep ==
    ASSUME IInv, Finish, TypeOK'
    PROVE  IInv'
<1> USE DEF Finish, At, Goto
<1>1. CASE pc' = "restore"
  BY <1>1, CalmStep DEF IInv, NoUpdateIdle, Writing, flash
<1>2. CASE pc' = "restart"
  <2> USE DEF IInv
  <2>1. ~OnTrial
    BY DEF WritesConfirmed, Writing
  <2>2. /\ pc = "finish" /\ image' = [image EXCEPT ![Target] = candidate]
        /\ entry' = [entry EXCEPT ![Target] = "new"] /\ newest' = Target
        /\ UNCHANGED <<run, updating, candidate>>
    BY <1>2
  <2>3. /\ image'[run] = image[run] /\ image'["factory"] = image["factory"]
        /\ image'[Target] = candidate /\ entry'[Target] = "new"
        /\ \A s \in OtaSlot : s # Target => entry'[s] = entry[s]
        /\ run # "factory" => entry'[run] = entry[run]
    BY <2>1, <2>2, TargetIsOther DEF TypeOK, Slot, OtaSlot
  <2>4. OnlyRunPending' /\ OnlyInstalledNew' /\ RunIsUsable' /\ FactoryIsAlone'
    BY <1>2, <2>1, <2>2, <2>3 DEF OnlyRunPending, OnlyInstalledNew, Target, RunIsUsable, FactoryIsAlone
  <2>5. RunIsNewest' /\ InstalledIsNewest'
    BY <1>2, <2>1, <2>2, <2>3, TargetIsOther DEF RunIsNewest, Other, InstalledIsNewest, Target
  <2>6. RunIsComplete' /\ ConfirmedIsGood' /\ FallbackIsGood'
    BY <2>1, <2>2, <2>3 DEF RunIsComplete, ConfirmedIsGood, FallbackIsGood, OnTrial
  <2>7. NoUpdateIdle' /\ WritesConfirmed' /\ CandidateIsNewer'
    BY <1>2, <2>1, <2>2, <2>3 DEF NoUpdateIdle, WritesConfirmed, CandidateIsNewer, Writing, OnTrial
  <2> QED
    BY <2>4, <2>5, <2>6, <2>7
<1> QED
  BY <1>1, <1>2

LEMMA NextIInv ==
    ASSUME IInv, [Next]_vars
    PROVE  IInv'
<1>0. TypeOK'
  BY NextTypeOK DEF IInv
<1>1. CASE PowerLoss \/ Crash \/ Restart
  BY <1>0, <1>1, BootStep DEF PowerLoss, Crash, Restart
<1>2. CASE Audio \/ TenSeconds
  BY <1>0, <1>2, CalmStep DEF Audio, TenSeconds, task, IInv, NoUpdateIdle
<1>3. CASE Command
  <2>1. PICK version \in Version, ready \in Readiness : OTAStart(version, ready)
    BY <1>3 DEF Command
  <2>2. UNCHANGED <<flash, run>> /\ NoUpdateIdle'
    BY <2>1 DEF OTAStart, FirmwareUpdateStart, task, IInv, NoUpdateIdle
  <2>3. \/ pc' = pc /\ candidate' = candidate
        \/ pc # "restart" /\ pc' \notin Writing \cup {"begin"}
    BY <2>1 DEF OTAStart, FirmwareUpdateStart, task, IInv, NoUpdateIdle, Writing
  <2> QED
    BY <1>0, <2>2, <2>3, CalmStep
<1>4. CASE Confirm
  BY <1>0, <1>4, ConfirmStep
<1>5. CASE Save \/ KeepAwake \/ RetryDelayOver \/ Restore \/ Release
  BY <1>0, <1>5, CalmStep
     DEF Save, KeepAwake, RetryDelayOver, Restore, Release, At, Goto, quiet, flash,
         IInv, NoUpdateIdle, Writing
<1>6. ASSUME NEW version \in 0..Versions, Connect(version) PROVE IInv'
  BY <1>0, <1>6, CalmStep DEF Connect, At, Goto, quiet, flash, IInv, NoUpdateIdle, Writing
<1>7. ASSUME NEW transport \in BOOLEAN, ConnectFails(transport) PROVE IInv'
  BY <1>0, <1>7, CalmStep DEF ConnectFails, At, Goto, quiet, flash, IInv, NoUpdateIdle, Writing
<1>8. CASE Describe \/ BeginWrite \/ Write \/ Finish
  BY <1>0, <1>8, DescribeStep, BeginWriteStep, WriteStep, FinishStep
<1>9. CASE UNCHANGED vars
  BY <1>0, <1>9, CalmStep DEF vars, flash, task, IInv, NoUpdateIdle
<1> QED
  BY <1>1, <1>2, <1>3, <1>4, <1>5, <1>6, <1>7, <1>8, <1>9 DEF Next, UpdateTask

THEOREM UpdateInvariant == Spec => []IInv
BY InitIInv, NextIInv, PTL DEF Spec

-----------------------------------------------------------------------------
(***************************************************************************)
(* What follows from it.                                                   *)
(***************************************************************************)

\* Where the device comes back to, in terms of the running slot.
ComesBackTo ==
    IF OnTrial
    THEN IF entry[Other(run)] = "valid" THEN Other(run) ELSE "factory"
    ELSE run

LEMMA TrustedSlot == IInv => Trusted = ComesBackTo
<1> SUFFICES ASSUME IInv PROVE Trusted = ComesBackTo
  OBVIOUS
<1> USE DEF ComesBackTo
<1>1. CASE OnTrial
  BY <1>1, Selection DEF Trusted, OnTrial
<1>2. CASE ~OnTrial
  BY <1>2 DEF Trusted, OnTrial, IInv, RunIsUsable
<1> QED
  BY <1>1, <1>2

LEMMA TrustedIsGood == ASSUME IInv PROVE TrustedIsHealthy
<1>1. image[run] \in Int /\ image["factory"] = 1 /\ 1 <= image[run]
  BY FactoryVersion DEF IInv, RunIsComplete, Version
<1>2. CASE OnTrial
  BY <1>1, <1>2, TrustedSlot, UpdateAssumption DEF ComesBackTo, IInv, FallbackIsGood, TrustedIsHealthy
<1>3. CASE ~OnTrial
  BY <1>1, <1>3, TrustedSlot DEF ComesBackTo, IInv, ConfirmedIsGood, TrustedIsHealthy
<1> QED
  BY <1>2, <1>3

\* The device always comes back to a healthy image that is not newer.
THEOREM TrustedStaysHealthy == Spec => []TrustedIsHealthy
BY UpdateInvariant, TrustedIsGood, PTL

LEMMA SelectedIsComplete == ASSUME IInv PROVE BootSlotComplete
<1>0. /\ \A v \in Good : v # 0
      /\ image[run] # 0 /\ image["factory"] # 0
  BY FactoryVersion, UpdateAssumption DEF IInv, RunIsComplete, Version
<1>1. CASE pc = "restart"
  <2>1. candidate > image[run] /\ image[run] >= 1 /\ candidate \in Int /\ image[run] \in Int
    BY <1>1, FactoryVersion DEF IInv, CandidateIsNewer, Writing, RunIsComplete, Version, TypeOK
  <2>2. candidate # 0
    BY <2>1
  <2> QED
    BY <1>1, <2>2, Selection DEF IInv, InstalledIsNewest, BootSlotComplete
<1>2. CASE OnTrial
  BY <1>0, <1>2, Selection DEF IInv, FallbackIsGood, BootSlotComplete
<1>3. CASE ~OnTrial /\ pc # "restart"
  BY <1>0, <1>3, Selection DEF BootSlotComplete
<1> QED
  BY <1>1, <1>2, <1>3

\* The bootloader never finds the slot it wants incomplete.
THEOREM BootSlotStaysComplete == Spec => []BootSlotComplete
BY UpdateInvariant, SelectedIsComplete, PTL

(***************************************************************************)
(* The refinement.                                                         *)
(***************************************************************************)
LEMMA InitRefines == ASSUME Init PROVE Contract!Init
<1>1. run = "factory" /\ image[run] = 1
  BY DEF Init, Slot
<1> QED
  BY <1>1 DEF Contract!Init, Trusted

\* A step that leaves the running image, its state and the other slot's
\* usability alone is not seen.
LEMMA QuietStep ==
    ASSUME IInv, IInv', run' = run, image'[run] = image[run], OnTrial' <=> OnTrial,
           OnTrial => image' = image /\ entry' = entry
    PROVE  UNCHANGED Contract!vars
<1> USE DEF ComesBackTo
<1>0. Trusted' = ComesBackTo'
  <2>1. (IInv => Trusted = ComesBackTo)'
    BY TrustedSlot, PTL
  <2> QED
    BY <2>1
<1>1. CASE OnTrial
  BY <1>0, <1>1, TrustedSlot DEF Contract!vars, Other
<1>2. CASE ~OnTrial
  BY <1>0, <1>2, TrustedSlot DEF Contract!vars
<1> QED
  BY <1>1, <1>2

LEMMA BootRefines ==
    ASSUME IInv, IInv', Boot
    PROVE  Contract!Next \/ UNCHANGED Contract!vars
<1> USE DEF ComesBackTo
<1>0. Trusted' = ComesBackTo'
  <2>1. (IInv => Trusted = ComesBackTo)'
    BY TrustedSlot, PTL
  <2> QED
    BY <2>1
<1>1. CASE pc = "restart"
  <2>1. ~OnTrial /\ image[Target] = candidate /\ candidate > image[run]
    BY <1>1 DEF IInv, WritesConfirmed, CandidateIsNewer, Writing, InstalledIsNewest
  <2>2. /\ run' = Target /\ entry'[Target] = "pending" /\ image' = image
        /\ entry'[Other(Target)] = entry[Other(Target)]
    BY <1>1, <2>1, BootCases
  <2>3. Trusted = run /\ OnTrial'
    BY <2>1, <2>2, TrustedSlot, TargetIsOther DEF OnTrial
  <2>4. \/ run # "factory" /\ Other(Target) = run /\ entry[run] = "valid"
        \/ run = "factory" /\ entry[Other(Target)] # "valid"
    BY <2>1, TargetIsOther DEF IInv, TypeOK, Slot, OtaSlot, Target, Other, FactoryIsAlone
  <2>5. Trusted' = run
    BY <1>0, <2>2, <2>3, <2>4
  <2>6. image'[run'] \in Nat
    BY <2>1, <2>2 DEF IInv, TypeOK
  <2> QED
    BY <2>1, <2>2, <2>3, <2>5, <2>6 DEF Contract!Next, Contract!Trial
<1>2. CASE OnTrial
  <2>1. /\ run' = Trusted /\ entry'[run] = "aborted" /\ image' = image
        /\ entry'[Other(run)] = entry[Other(run)]
    BY <1>2, BootCases, TrustedSlot
  <2>2. ~OnTrial'
    BY <1>2, <2>1, TrustedSlot DEF OnTrial
  <2>3. Trusted' = Trusted
    BY <1>0, <2>1, <2>2
  <2> QED
    BY <2>1, <2>3 DEF Contract!Next, Contract!GoBack
<1>3. CASE ~OnTrial /\ pc # "restart"
  <2>1. run' = run /\ entry' = entry /\ image' = image
    BY <1>3, BootCases
  <2> QED
    BY <1>3, <2>1, QuietStep DEF OnTrial
<1> QED
  BY <1>1, <1>2, <1>3

LEMMA NextRefines ==
    ASSUME IInv, IInv', [Next]_vars
    PROVE  [Contract!Next]_Contract!vars
<1>1. CASE PowerLoss \/ Crash \/ Restart
  BY <1>1, BootRefines DEF PowerLoss, Crash, Restart
<1>2. CASE Confirm
  <2>1. /\ run' = run /\ image' = image /\ OnTrial /\ ~OnTrial' /\ image[run] \in Good
    BY <1>2 DEF Confirm, OnTrial, IInv, TypeOK, Slot, OtaSlot
  <2>2. (IInv => Trusted = ComesBackTo)'
    BY TrustedSlot, PTL
  <2>3. Trusted' = run
    BY <2>1, <2>2 DEF ComesBackTo
  <2> QED
    BY <2>1, <2>3 DEF Contract!Next, Contract!Trust
<1>3. CASE BeginWrite
  BY <1>3, QuietStep, TargetIsOther DEF BeginWrite, OnTrial, IInv, TypeOK
<1>4. CASE Finish
  <2>1. ~OnTrial
    BY <1>4 DEF Finish, At, IInv, WritesConfirmed, Writing
  <2>2. run' = run /\ image'[run] = image[run]
    BY <1>4, <2>1, TargetIsOther DEF Finish, flash, IInv, TypeOK
  <2>3. ~OnTrial'
    BY <1>4, <2>1, <2>2, TargetIsOther DEF Finish, OnTrial, flash, IInv, TypeOK, Slot
  <2> QED
    BY <2>1, <2>2, <2>3, QuietStep DEF Finish
<1>5. CASE UNCHANGED <<flash, run>>
  BY <1>5, QuietStep DEF flash, OnTrial
<1>6. CASE Audio \/ Command \/ TenSeconds
  BY <1>5, <1>6 DEF Audio, Command, OTAStart, TenSeconds
<1>7. CASE Save \/ KeepAwake \/ RetryDelayOver \/ Describe \/ Write \/ Restore \/ Release
  BY <1>5, <1>7 DEF Save, KeepAwake, RetryDelayOver, Describe, Write, Restore, Release, quiet
<1>8. ASSUME NEW version \in 0..Versions, Connect(version)
      PROVE  [Contract!Next]_Contract!vars
  BY <1>5, <1>8 DEF Connect, quiet
<1>9. ASSUME NEW transport \in BOOLEAN, ConnectFails(transport)
      PROVE  [Contract!Next]_Contract!vars
  BY <1>5, <1>9 DEF ConnectFails, quiet
<1>10. CASE UNCHANGED vars
  BY <1>5, <1>10 DEF vars
<1> QED
  BY <1>1, <1>2, <1>3, <1>4, <1>6, <1>7, <1>8, <1>9, <1>10 DEF Next, UpdateTask

\* The device implements the contract: it runs a trusted image or a newer one
\* on trial, trusts none that is not healthy, and comes back from any trial.
THEOREM UpdateRefines == Spec => ImplementsContract
<1>1. Init => Contract!Init
  BY InitRefines
<1>2. IInv /\ IInv' /\ [Next]_vars => [Contract!Next]_Contract!vars
  BY NextRefines
<1> QED
  BY <1>1, <1>2, UpdateInvariant, PTL DEF Spec, ImplementsContract, Contract!Spec
=============================================================================
