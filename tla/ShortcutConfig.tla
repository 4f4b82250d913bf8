---------------------------- MODULE ShortcutConfig ----------------------------
(***************************************************************************)
(* The transfer of the shortcut configuration from the Mac to the device:  *)
(* the Mac's file and its periodic sync, the BLE writes, the device's      *)
(* bounded command queue, the staging area, the commit to flash, and the   *)
(* state notification from which the Mac learns the device's version.      *)
(*                                                                         *)
(* A configuration is a version and a content.  Its SHA-256 is itself, and *)
(* so is each of its chunks.  Every configuration has the same number of   *)
(* chunks.                                                                 *)
(***************************************************************************)
EXTENDS Naturals, Sequences

CONSTANTS
    Content,        \* what the mappings can be
    FactoryContent, \* kDefaultShortcutConfig's
    DefaultContent, \* BridgeShortcutConfiguration.defaults'
    Chunks,         \* the number of chunks of a transfer
    QueueLength,    \* of g_control_command_queue
    MaxVersion,     \* bounds the edits
    MaxWrites,      \* bounds the queue of BLE writes
    MaxFaults       \* bounds crashes, losses, failures and disconnects

ASSUME ConfigAssumption ==
    /\ FactoryContent \in Content /\ DefaultContent \in Content
    /\ Chunks \in Nat \ {0} /\ QueueLength \in Nat /\ MaxVersion \in Nat
    /\ MaxVersion >= 2 /\ MaxWrites \in Nat /\ MaxFaults \in Nat

Config == [ver : 1..MaxVersion, content : Content]

Factory  == [ver |-> 1, content |-> FactoryContent]
Defaults == [ver |-> 2, content |-> DefaultContent]

None    == [none |-> TRUE]      \* no blob in flash, no chunk, no staging
Unknown == 0                    \* the Mac has not heard a version
Mixed   == "mixed"              \* bytes of two configurations: nobody's content

VARIABLES
    \* the Mac
    file,       \* configuration, in memory and in config.json
    observed,   \* deviceConfigVersion
    writes,     \* commandWriteQueue
    authored,   \* history: every configuration the file ever was
    \* the air
    link,       \* ready and authenticated
    notice,     \* the notification under way
    \* the device
    queue,      \* g_control_command_queue
    staged,     \* the prepared configuration (its version and hash), or None
    got,        \* the chunks received for it
    pc,         \* the progress of device_shortcut_config_commit
    nvs,        \* the blob in flash
    active,     \* active_
    faults      \* how many faults have happened

macVars    == <<file, observed, writes, authored>>
deviceVars == <<queue, staged, got, pc, nvs, active>>
vars == <<file, observed, writes, authored, link, notice, queue, staged, got,
          pc, nvs, active, faults>>

Prepare(c)  == [kind |-> "prepare", cfg |-> c]
Chunk(c, i) == [kind |-> "chunk", cfg |-> c, index |-> i]
Commit      == [kind |-> "commit"]

MessageOf(configs) == {Commit} \union {Prepare(c) : c \in configs}
                         \union {Chunk(c, i) : c \in configs, i \in 1..Chunks}

\* encodedTransferWrites
Transfer(c) == <<Prepare(c)>> \o [i \in 1..Chunks |-> Chunk(c, i)] \o <<Commit>>

NoChunks == [i \in 1..Chunks |-> None]

TypeOK ==
    /\ file \in Config /\ observed \in 0..MaxVersion /\ authored \subseteq Config
    /\ writes \in Seq(MessageOf(Config)) /\ Len(writes) <= MaxWrites
    /\ link \in BOOLEAN /\ notice \in 0..MaxVersion
    /\ queue \in Seq(MessageOf(Config)) /\ Len(queue) <= QueueLength
    /\ staged \in Config \union {None}
    /\ got \in [1..Chunks -> Config \union {None}]
    /\ pc \in {"idle", "store", "flush", "activate"}
    /\ nvs \in Config \union {None} /\ active \in Config
    /\ faults \in 0..MaxFaults

Init ==
    /\ file = Defaults /\ observed = Unknown /\ writes = <<>>
    /\ authored = {Factory, Defaults}
    /\ link = FALSE /\ notice = Unknown
    /\ queue = <<>> /\ staged = None /\ got = NoChunks /\ pc = "idle"
    /\ nvs = None /\ active = Factory
    /\ faults = 0

Fault == faults < MaxFaults /\ faults' = faults + 1

-----------------------------------------------------------------------------
(***************************************************************************)
(* The Mac.                                                                *)
(***************************************************************************)
Author(c) ==
    /\ c.ver <= MaxVersion
    /\ file' = c /\ authored' = authored \union {c}
    /\ UNCHANGED <<observed, writes, link, notice, deviceVars, faults>>

\* apply: an edit, even of nothing, takes the next version.
Edit == \E k \in Content :
            Author([ver |-> file.ver + 1, content |-> k])

\* forceNextVersion: "use the settings of the Mac".
ForceNextVersion ==
    /\ observed > file.ver
    /\ Author([ver |-> observed + 1, content |-> file.content])

Enqueue(messages) ==
    /\ Len(writes) + Len(messages) <= MaxWrites
    /\ writes' = writes \o messages
    /\ UNCHANGED <<file, observed, authored, link, notice, deviceVars, faults>>

\* syncShortcutConfigurationIfNeeded, on a timer and on every change.
SyncIfNeeded ==
    /\ link /\ observed # Unknown /\ file.ver > observed
    /\ Enqueue(Transfer(file))

\* The sync button, which is enabled unless the versions agree.
SyncByHand ==
    /\ link /\ file.ver # observed
    /\ Enqueue(Transfer(file))

\* didUpdateValueFor the state characteristic.
ObserveState ==
    /\ notice # Unknown
    /\ observed' = notice /\ notice' = Unknown
    /\ UNCHANGED <<file, writes, authored, link, deviceVars, faults>>

\* clearConnectionHandles, when the Mac notices that the link is gone.
Forget ==
    /\ ~link /\ <<observed, writes>> # <<Unknown, <<>>>>
    /\ observed' = Unknown /\ writes' = <<>>
    /\ UNCHANGED <<file, authored, link, notice, deviceVars, faults>>

\* Ready and authenticated again.
Connect ==
    /\ ~link /\ observed = Unknown /\ writes = <<>>
    /\ link' = TRUE
    /\ UNCHANGED <<macVars, notice, deviceVars, faults>>

LinkLost == link' = FALSE /\ notice' = Unknown

Disconnect ==
    /\ Fault
    /\ link /\ LinkLost
    /\ UNCHANGED <<macVars, deviceVars>>

\* A write with an error response drops everything behind it.
WriteFails ==
    /\ Fault
    /\ writes # <<>> /\ writes' = <<>>
    /\ UNCHANGED <<file, observed, authored, link, notice, deviceVars>>

\* The app starts without a readable config.json.
StartWithoutFile ==
    /\ Fault
    /\ file' = Defaults /\ observed' = Unknown /\ writes' = <<>>
    /\ LinkLost
    /\ UNCHANGED <<authored, deviceVars>>

-----------------------------------------------------------------------------
(***************************************************************************)
(* The device.                                                             *)
(***************************************************************************)

\* on_vendor_command: a full queue drops the command, which is acknowledged
\* all the same.
Receive ==
    /\ link /\ writes # <<>>
    /\ writes' = Tail(writes)
    /\ \/ /\ Len(queue) < QueueLength
          /\ queue' = Append(queue, Head(writes))
          /\ UNCHANGED faults
       \/ /\ Len(queue) = QueueLength /\ Fault
          /\ UNCHANGED queue
    /\ UNCHANGED <<file, observed, authored, link, notice, staged, got, pc, nvs,
                   active>>

\* publish_state
PublishState == notice' = IF link THEN active'.ver ELSE notice

Take(kind) ==
    /\ pc = "idle" /\ queue # <<>> /\ Head(queue).kind = kind
    /\ queue' = Tail(queue)
    /\ UNCHANGED <<macVars, link, nvs, active, faults>>

\* A mutation: what was staged before is not cleared.
HandlePrepareKeeping ==
    /\ Take("prepare")
    /\ LET c == Head(queue).cfg IN
       IF c.ver > active.ver THEN staged' = c ELSE UNCHANGED staged
    /\ UNCHANGED <<got, pc, notice>>

HandlePrepare ==
    /\ Take("prepare")
    /\ LET c == Head(queue).cfg IN
       IF c.ver > active.ver
       THEN staged' = c /\ got' = NoChunks
       ELSE UNCHANGED <<staged, got>>
    /\ UNCHANGED <<pc, notice>>

HandleChunk ==
    /\ Take("chunk")
    /\ LET m == Head(queue) IN
       IF staged # None /\ got[m.index] = None
       THEN got' = [got EXCEPT ![m.index] = m.cfg]
       ELSE UNCHANGED got
    /\ UNCHANGED <<staged, pc, notice>>

\* The state is published for other reasons too: an intent, Wi-Fi, G0.
PublishAnyway ==
    /\ pc = "idle" /\ link
    /\ UNCHANGED <<macVars, link, deviceVars, faults>>
    /\ PublishState

\* A mutation: the hash of what was received is not compared.
StagedIsCompleteUnhashed ==
    /\ staged # None
    /\ \A i \in 1..Chunks : got[i] # None
    /\ staged.ver > active.ver

\* validate_staging: complete, hash-bound and newer.
StagedIsComplete ==
    /\ staged # None
    /\ \A i \in 1..Chunks : got[i] = staged
    /\ staged.ver > active.ver

\* device_shortcut_config_commit, up to the flash.
BeginCommit ==
    /\ Take("commit")
    /\ IF StagedIsComplete
       THEN pc' = "store" /\ UNCHANGED notice
       ELSE UNCHANGED pc /\ PublishState
    /\ UNCHANGED <<staged, got>>

\* The bytes that are stored and activated.
Received == IF \A i \in 1..Chunks : got[i] = got[1]
            THEN got[1]
            ELSE [ver |-> staged.ver, content |-> Mixed]

AtCommit(from, to) ==
    /\ pc = from /\ pc' = to
    /\ UNCHANGED <<macVars, link, queue>>

\* A mutation: the staging area is activated before it is in flash.
StoreLate ==
    /\ AtCommit("store", "flush")
    /\ active' = Received
    /\ PublishState
    /\ UNCHANGED <<nvs, staged, got, faults>>

\* nvs_set_blob
Store ==
    /\ AtCommit("store", "flush")
    /\ nvs' = Received
    /\ UNCHANGED <<notice, staged, got, active, faults>>

Flush ==
    /\ AtCommit("flush", "activate")
    /\ UNCHANGED <<notice, staged, got, nvs, active, faults>>

\* The hash or the flash fails: the staging area stays as it is, and the blob
\* may already be in flash.
StoreFails ==
    /\ AtCommit("store", "idle") \/ AtCommit("flush", "idle")
    /\ Fault
    /\ UNCHANGED <<staged, got, nvs, active>>
    /\ PublishState

\* activate_validated, and the state is published.
Activate ==
    /\ AtCommit("activate", "idle")
    /\ active' = Received
    /\ staged' = None /\ got' = NoChunks
    /\ PublishState
    /\ UNCHANGED <<nvs, faults>>

\* Power loss at any point; device_shortcut_config_start loads what is in
\* flash, or the factory configuration.
Restart ==
    /\ Fault
    /\ active' = IF nvs = None THEN Factory ELSE nvs
    /\ queue' = <<>> /\ staged' = None /\ got' = NoChunks /\ pc' = "idle"
    /\ LinkLost
    /\ UNCHANGED <<macVars, nvs>>

\* A notification that the BLE stack does not accept is not sent again.
LoseNotice ==
    /\ Fault
    /\ notice # Unknown /\ notice' = Unknown
    /\ UNCHANGED <<macVars, link, deviceVars>>

Mac == \/ Edit \/ ForceNextVersion \/ SyncIfNeeded \/ SyncByHand \/ ObserveState
       \/ Forget \/ Connect \/ Disconnect \/ WriteFails \/ StartWithoutFile

MainTask == \/ HandlePrepare \/ HandleChunk \/ BeginCommit
            \/ Store \/ Flush \/ Activate

Device == \/ Receive \/ MainTask \/ PublishAnyway \/ StoreFails
          \/ Restart \/ LoseNotice

Next == Mac \/ Device

Spec == Init /\ [][Next]_vars

\* The Mac's timer fires every two seconds, the main task polls its queue, and
\* the BLE stacks deliver what they accepted.
FairSpec == /\ Spec
            /\ WF_vars(SyncIfNeeded) /\ WF_vars(Receive) /\ WF_vars(MainTask)
            /\ WF_vars(ObserveState)

-----------------------------------------------------------------------------
(***************************************************************************)
(* Properties.                                                             *)
(***************************************************************************)
Register == INSTANCE AuthoredRegister WITH Value <- Config, value <- active

\* Whatever chunks of whatever transfers were dropped, and wherever the power
\* failed, the mappings in force are a whole configuration, and its version
\* never goes back.
ImplementsRegister == Register!Spec

\* A version the Mac was told of survives a power loss.
SeenIsStored ==
    \A v \in {observed, notice} : v > Factory.ver => nvs # None /\ nvs.ver >= v

\* When the link stays and the Mac knows a version of the device, the device
\* catches up with the Mac, whatever commands and notifications were lost.
EventuallySynced ==
    <>[](link /\ observed # Unknown) => <>[](active.ver >= file.ver)
=============================================================================
