------------------------- MODULE ShortcutConfigProofs -------------------------
(***************************************************************************)
(* The device's shortcut store implements AuthoredRegister, and a version  *)
(* the Mac was told of is in flash, for every number of chunks, every      *)
(* queue length and any number of faults.                                  *)
(***************************************************************************)
EXTENDS ShortcutConfig, SequenceTheorems, TLAPS

\* Every configuration under way is one that was authored.
OnlyAuthored ==
    /\ authored \subseteq Config
    /\ file \in authored /\ Factory \in authored /\ Defaults \in authored
    /\ writes \in Seq(MessageOf(authored)) /\ queue \in Seq(MessageOf(authored))
    /\ staged \in authored \union {None}
    /\ got \in [1..Chunks -> authored \union {None}]
    /\ nvs \in authored \union {None} /\ active \in authored

\* The main task commits what it has validated, and nothing changes it.
CommitIsValidated == pc # "idle" => StagedIsComplete

\* What is in force can be found in flash, or was replaced there by a newer one.
FlashIsAhead ==
    /\ nvs = None => active = Factory
    /\ nvs # None => nvs = active \/ nvs.ver > active.ver
    /\ pc \in {"flush", "activate"} => nvs = staged

\* The Mac is told of nothing that is not in force.
SeenIsActive ==
    /\ observed \in Nat /\ notice \in Nat
    /\ observed <= active.ver /\ notice <= active.ver

IInv == OnlyAuthored /\ CommitIsValidated /\ FlashIsAhead /\ SeenIsActive

-----------------------------------------------------------------------------
LEMMA NoneIsNoConfig == None \notin Config
  <1>1. DOMAIN None = {"none"}
    BY DEF None
  <1>2. \A c \in Config : DOMAIN c = {"ver", "content"}
    BY DEF Config
  <1> QED
    BY <1>1, <1>2

\* More authored configurations only allow more messages.
LEMMA MessagesGrow ==
    ASSUME NEW A, NEW B, A \subseteq B
    PROVE  Seq(MessageOf(A)) \subseteq Seq(MessageOf(B))
  <1>1. MessageOf(A) \subseteq MessageOf(B)
    BY DEF MessageOf
  <1> QED
    BY <1>1, SeqMonotonic

LEMMA TransferMessages ==
    ASSUME NEW A, NEW c \in A
    PROVE  Transfer(c) \in Seq(MessageOf(A))
  <1>1. /\ Prepare(c) \in MessageOf(A) /\ Commit \in MessageOf(A)
        /\ \A i \in 1..Chunks : Chunk(c, i) \in MessageOf(A)
    BY DEF MessageOf
  <1> DEFINE chunks == [i \in 1..Chunks |-> Chunk(c, i)]
  <1>2. <<Prepare(c)>> \in Seq(MessageOf(A)) /\ <<Commit>> \in Seq(MessageOf(A))
    BY <1>1
  <1>3. chunks \in Seq(MessageOf(A))
    <2>1. chunks \in [1..Chunks -> MessageOf(A)]
      BY <1>1
    <2> QED
      BY <2>1, ConfigAssumption, SeqDef
  <1> HIDE DEF chunks
  <1>4. <<Prepare(c)>> \o chunks \in Seq(MessageOf(A))
    BY <1>2, <1>3, ConcatProperties
  <1> QED
    BY <1>2, <1>4, ConcatProperties DEF Transfer, chunks

\* Which configuration a message carries.
LEMMA MessageContents ==
    ASSUME NEW A, NEW m \in MessageOf(A)
    PROVE  /\ m.kind = "prepare" => m.cfg \in A
           /\ m.kind = "chunk" => m.cfg \in A /\ m.index \in 1..Chunks
  BY DEF MessageOf, Prepare, Chunk, Commit

\* What was validated is what is stored and activated.
LEMMA ReceivedIsStaged ==
    ASSUME StagedIsComplete
    PROVE  Received = staged
  <1>1. 1 \in 1..Chunks
    BY ConfigAssumption
  <1> QED
    BY <1>1 DEF StagedIsComplete, Received

LEMMA ConfigVersions ==
    /\ \A c \in Config : c.ver \in Nat /\ c.ver > 0
    /\ Factory \in Config /\ Defaults \in Config
    /\ Factory.ver = 1
  BY ConfigAssumption DEF Config, Factory, Defaults

-----------------------------------------------------------------------------
LEMMA Initially == Init => IInv
  <1> SUFFICES ASSUME Init PROVE IInv
    OBVIOUS
  <1>1. OnlyAuthored
    <2>1. NoChunks \in [1..Chunks -> {None}]
      BY DEF NoChunks
    <2>2. writes \in Seq(MessageOf(authored)) /\ queue \in Seq(MessageOf(authored))
      BY EmptySeq DEF Init
    <2> QED
      BY <2>1, <2>2, ConfigVersions DEF Init, OnlyAuthored
  <1>2. CommitIsValidated /\ FlashIsAhead
    BY DEF Init, CommitIsValidated, FlashIsAhead
  <1>3. SeenIsActive
    BY ConfigVersions DEF Init, SeenIsActive, Unknown
  <1> QED
    BY <1>1, <1>2, <1>3 DEF IInv

\* The Mac's new version changes nothing the device holds.
LEMMA AuthorStep ==
    ASSUME IInv, NEW c \in Config, Author(c)
    PROVE  IInv'
  <1>1. authored \subseteq authored' /\ authored' \subseteq Config /\ file' \in authored'
    BY DEF IInv, OnlyAuthored, Author
  <1>2. UNCHANGED <<observed, writes, notice, queue, staged, got, pc, nvs, active>>
    BY DEF Author, deviceVars
  <1>3. OnlyAuthored'
    <2>1. writes' \in Seq(MessageOf(authored')) /\ queue' \in Seq(MessageOf(authored'))
      BY <1>1, <1>2, MessagesGrow DEF IInv, OnlyAuthored
    <2>2. got' \in [1..Chunks -> authored' \union {None}]
      BY <1>1, <1>2 DEF IInv, OnlyAuthored
    <2> QED
      BY <1>1, <1>2, <2>1, <2>2 DEF IInv, OnlyAuthored
  <1>4. CommitIsValidated' /\ FlashIsAhead' /\ SeenIsActive'
    BY <1>2 DEF IInv, CommitIsValidated, StagedIsComplete, FlashIsAhead, SeenIsActive
  <1> QED
    BY <1>3, <1>4 DEF IInv

LEMMA EnqueueStep ==
    ASSUME IInv, Enqueue(Transfer(file))
    PROVE  IInv'
  <1>1. writes' \in Seq(MessageOf(authored))
    BY TransferMessages, ConcatProperties DEF IInv, OnlyAuthored, Enqueue
  <1> QED
    BY <1>1 DEF IInv, OnlyAuthored, CommitIsValidated, StagedIsComplete, FlashIsAhead,
                SeenIsActive, Enqueue, deviceVars

LEMMA MacStep ==
    ASSUME IInv, Mac
    PROVE  IInv'
  <1>1. CASE Edit
    <2> PICK k \in Content : Author([ver |-> file.ver + 1, content |-> k])
      BY <1>1 DEF Edit
    <2>1. [ver |-> file.ver + 1, content |-> k] \in Config
      BY ConfigAssumption DEF IInv, OnlyAuthored, Author, Config
    <2> QED
      BY <2>1, AuthorStep
  <1>2. CASE ForceNextVersion
    <2>1. [ver |-> observed + 1, content |-> file.content] \in Config
      BY <1>2, ConfigAssumption DEF ForceNextVersion, IInv, OnlyAuthored, SeenIsActive, Author, Config
    <2> QED
      BY <1>2, <2>1, AuthorStep DEF ForceNextVersion
  <1>3. CASE SyncIfNeeded \/ SyncByHand
    BY <1>3, EnqueueStep DEF SyncIfNeeded, SyncByHand
  <1>4. CASE ObserveState
    BY <1>4, ConfigVersions DEF ObserveState, IInv, OnlyAuthored, CommitIsValidated,
       StagedIsComplete, FlashIsAhead, SeenIsActive, Unknown, deviceVars
  <1>5. CASE Forget \/ Connect \/ Disconnect \/ WriteFails \/ StartWithoutFile
    <2>1. UNCHANGED <<authored, queue, staged, got, pc, nvs, active>>
      BY <1>5 DEF Forget, Connect, Disconnect, WriteFails, StartWithoutFile, macVars, deviceVars
    <2>2. /\ writes' \in {writes, <<>>} /\ file' \in {file, Defaults}
          /\ observed' \in {observed, Unknown} /\ notice' \in {notice, Unknown}
      BY <1>5 DEF Forget, Connect, Disconnect, LinkLost, WriteFails, StartWithoutFile, macVars
    <2>3. writes' \in Seq(MessageOf(authored))
      BY <2>2, EmptySeq DEF IInv, OnlyAuthored
    <2>4. OnlyAuthored'
      BY <2>1, <2>2, <2>3 DEF IInv, OnlyAuthored
    <2>5. SeenIsActive'
      BY <2>1, <2>2, ConfigVersions DEF IInv, OnlyAuthored, SeenIsActive, Unknown
    <2> QED
      BY <2>1, <2>4, <2>5 DEF IInv, CommitIsValidated, StagedIsComplete, FlashIsAhead
  <1> QED
    BY <1>1, <1>2, <1>3, <1>4, <1>5 DEF Mac

-----------------------------------------------------------------------------
\* Taking a command leaves a queue of commands.
LEMMA TakeStep ==
    ASSUME IInv, NEW k, Take(k)
    PROVE  /\ queue' \in Seq(MessageOf(authored)) /\ Head(queue) \in MessageOf(authored)
           /\ Head(queue).kind = k /\ pc = "idle"
           /\ UNCHANGED <<file, observed, writes, authored, nvs, active>>
  BY HeadTailProperties DEF IInv, OnlyAuthored, Take, macVars

\* Publishing tells the version that is in force after the step.
LEMMA PublishStep ==
    ASSUME IInv, PublishState, active' \in authored, authored \subseteq Config,
           active'.ver >= active.ver
    PROVE  notice' \in Nat /\ notice' <= active'.ver
  BY ConfigVersions DEF PublishState, IInv, OnlyAuthored, SeenIsActive

LEMMA CommandStep ==
    ASSUME IInv, HandlePrepare \/ HandleChunk \/ BeginCommit
    PROVE  IInv'
  <1>1. CASE HandlePrepare
    <2>1. Take("prepare") /\ UNCHANGED <<pc, notice>>
      BY <1>1 DEF HandlePrepare
    <2>2. Head(queue).cfg \in authored
      BY <2>1, TakeStep, MessageContents
    <2>3. NoChunks \in [1..Chunks -> authored \union {None}]
      BY DEF NoChunks
    <2>4. staged' \in authored \union {None} /\ got' \in [1..Chunks -> authored \union {None}]
      BY <1>1, <2>2, <2>3 DEF HandlePrepare, IInv, OnlyAuthored
    <2>5. OnlyAuthored'
      BY <2>1, <2>4, TakeStep DEF IInv, OnlyAuthored
    <2> QED
      BY <2>1, <2>5, TakeStep DEF IInv, CommitIsValidated, FlashIsAhead, SeenIsActive
  <1>2. CASE HandleChunk
    <2>1. Take("chunk") /\ UNCHANGED <<staged, pc, notice>>
      BY <1>2 DEF HandleChunk
    <2>2. Head(queue).cfg \in authored
      BY <2>1, TakeStep, MessageContents
    <2>3. got' \in [1..Chunks -> authored \union {None}]
      BY <1>2, <2>2 DEF HandleChunk, IInv, OnlyAuthored
    <2>4. OnlyAuthored'
      BY <2>1, <2>3, TakeStep DEF IInv, OnlyAuthored
    <2> QED
      BY <2>1, <2>4, TakeStep DEF IInv, CommitIsValidated, FlashIsAhead, SeenIsActive
  <1>3. CASE BeginCommit
    <2>1. Take("commit") /\ UNCHANGED <<staged, got>>
      BY <1>3 DEF BeginCommit
    <2>2. OnlyAuthored'
      BY <2>1, TakeStep DEF IInv, OnlyAuthored
    <2>3. CommitIsValidated' /\ FlashIsAhead'
      BY <1>3, <2>1, TakeStep DEF BeginCommit, IInv, CommitIsValidated, StagedIsComplete, FlashIsAhead
    <2>4. SeenIsActive'
      <3>1. notice' = notice \/ PublishState
        BY <1>3 DEF BeginCommit
      <3>2. active' = active /\ observed' = observed /\ active.ver \in Nat
        BY <2>1, TakeStep, ConfigVersions DEF IInv, OnlyAuthored
      <3> QED
        BY <3>1, <3>2, PublishStep DEF IInv, OnlyAuthored, SeenIsActive
    <2> QED
      BY <2>2, <2>3, <2>4 DEF IInv
  <1> QED
    BY <1>1, <1>2, <1>3

LEMMA FlashStep ==
    ASSUME IInv, Store \/ Flush \/ StoreFails
    PROVE  IInv'
  <1>1. /\ UNCHANGED <<file, observed, writes, authored, queue, staged, got, active>>
        /\ pc # "idle" /\ StagedIsComplete /\ active.ver \in Nat
    BY ConfigVersions DEF Store, Flush, StoreFails, AtCommit, macVars, IInv, OnlyAuthored,
                          CommitIsValidated
  <1>2. nvs' = nvs \/ nvs' = staged
    BY <1>1, ReceivedIsStaged DEF Store, Flush, StoreFails
  <1>3. staged \in authored /\ staged # None /\ staged.ver > active.ver
    BY <1>1 DEF IInv, OnlyAuthored, StagedIsComplete
  <1>4. OnlyAuthored'
    BY <1>1, <1>2, <1>3 DEF IInv, OnlyAuthored
  <1>5. CommitIsValidated'
    BY <1>1 DEF CommitIsValidated, StagedIsComplete
  <1>6. FlashIsAhead'
    <2>1. nvs' = None => active' = Factory
      BY <1>1, <1>2, <1>3 DEF IInv, FlashIsAhead
    <2>2. nvs' # None => nvs' = active' \/ nvs'.ver > active'.ver
      <3>1. staged.ver \in Nat
        BY <1>3, ConfigVersions DEF IInv, OnlyAuthored
      <3> QED
        BY <3>1, <1>1, <1>2, <1>3 DEF IInv, FlashIsAhead
    <2>3. pc' \in {"flush", "activate"} => nvs' = staged'
      BY <1>1, ReceivedIsStaged DEF Store, Flush, StoreFails, AtCommit, IInv, FlashIsAhead
    <2> QED
      BY <2>1, <2>2, <2>3 DEF FlashIsAhead
  <1>7. SeenIsActive'
    <2>1. notice' = notice \/ PublishState
      BY DEF Store, Flush, StoreFails
    <2> QED
      BY <1>1, <2>1, PublishStep DEF IInv, OnlyAuthored, SeenIsActive
  <1> QED
    BY <1>4, <1>5, <1>6, <1>7 DEF IInv

LEMMA ActivateStep ==
    ASSUME IInv, Activate
    PROVE  /\ IInv'
           /\ active' \in authored /\ active'.ver > active.ver /\ authored' = authored
  <1>1. /\ UNCHANGED <<file, observed, writes, authored, queue, nvs>>
        /\ pc = "activate" /\ pc' = "idle" /\ StagedIsComplete
    BY DEF Activate, AtCommit, macVars, IInv, CommitIsValidated
  <1>2. staged \in authored /\ staged.ver > active.ver /\ staged # None
    BY <1>1 DEF IInv, OnlyAuthored, StagedIsComplete
  <1>3. active' = staged /\ nvs = staged
    BY <1>1, ReceivedIsStaged DEF Activate, IInv, FlashIsAhead
  <1>4. /\ active.ver \in Nat /\ staged.ver \in Nat
    BY <1>2, ConfigVersions DEF IInv, OnlyAuthored
  <1>5. OnlyAuthored'
    <2>1. got' \in [1..Chunks -> authored \union {None}]
      BY DEF Activate, NoChunks
    <2> QED
      BY <1>1, <1>2, <1>3, <2>1 DEF Activate, IInv, OnlyAuthored
  <1>6. CommitIsValidated' /\ FlashIsAhead'
    BY <1>1, <1>2, <1>3, <1>4 DEF CommitIsValidated, FlashIsAhead
  <1>7. SeenIsActive'
    <2>1. notice' \in Nat /\ notice' <= active'.ver
      BY <1>2, <1>3, <1>4, PublishStep DEF Activate, IInv, OnlyAuthored
    <2> QED
      BY <1>1, <1>2, <1>3, <1>4, <2>1 DEF IInv, SeenIsActive
  <1> QED
    BY <1>1, <1>2, <1>3, <1>5, <1>6, <1>7 DEF IInv

\* What a restart brings into force is what was in force, or newer.
LEMMA RestartStep ==
    ASSUME IInv, Restart
    PROVE  /\ IInv'
           /\ authored' = authored
           /\ active' = active \/ (active' \in authored /\ active'.ver > active.ver)
  <1>1. UNCHANGED <<file, observed, writes, authored, nvs>>
    BY DEF Restart, macVars
  <1>2. active' \in authored /\ (active' = active \/ active'.ver > active.ver)
    BY ConfigVersions DEF Restart, IInv, OnlyAuthored, FlashIsAhead
  <1>3. active.ver \in Nat /\ active'.ver \in Nat
    BY <1>2, ConfigVersions DEF IInv, OnlyAuthored
  <1>4. OnlyAuthored'
    <2>1. got' \in [1..Chunks -> authored \union {None}] /\ queue' \in Seq(MessageOf(authored))
      BY EmptySeq DEF Restart, NoChunks
    <2> QED
      BY <1>1, <1>2, <2>1 DEF Restart, IInv, OnlyAuthored
  <1>5. CommitIsValidated' /\ FlashIsAhead'
    BY <1>1, <1>3 DEF Restart, CommitIsValidated, FlashIsAhead
  <1>6. SeenIsActive'
    BY <1>1, <1>2, <1>3 DEF Restart, LinkLost, Unknown, IInv, SeenIsActive
  <1> QED
    BY <1>1, <1>2, <1>3, <1>4, <1>5, <1>6 DEF IInv

LEMMA DeviceStep ==
    ASSUME IInv, Device
    PROVE  IInv'
  <1>1. CASE Receive
    <2>1. writes # <<>> /\ writes' = Tail(writes)
          /\ (queue' = queue \/ queue' = Append(queue, Head(writes)))
      BY <1>1 DEF Receive
    <2>2. Head(writes) \in MessageOf(authored) /\ writes' \in Seq(MessageOf(authored))
      BY <2>1, HeadTailProperties DEF IInv, OnlyAuthored
    <2>3. queue' \in Seq(MessageOf(authored))
      <3>1. queue \in Seq(MessageOf(authored))
        BY DEF IInv, OnlyAuthored
      <3>2. Append(queue, Head(writes)) \in Seq(MessageOf(authored))
        BY <2>2, <3>1, AppendProperties
      <3> QED
        BY <2>1, <3>1, <3>2
    <2>4. UNCHANGED <<file, observed, authored, notice, staged, got, pc, nvs, active>>
      BY <1>1 DEF Receive
    <2>5. OnlyAuthored'
      BY <2>2, <2>3, <2>4 DEF IInv, OnlyAuthored
    <2> QED
      BY <2>4, <2>5 DEF IInv, CommitIsValidated, StagedIsComplete, FlashIsAhead, SeenIsActive
  <1>2. CASE HandlePrepare \/ HandleChunk \/ BeginCommit
    BY <1>2, CommandStep
  <1>3. CASE Store \/ Flush \/ StoreFails
    BY <1>3, FlashStep
  <1>4. CASE Activate
    BY <1>4, ActivateStep
  <1>5. CASE Restart
    BY <1>5, RestartStep
  <1>6. CASE PublishAnyway \/ LoseNotice
    <2>1. /\ UNCHANGED <<file, observed, writes, authored, queue, staged, got, pc, nvs, active>>
      BY <1>6 DEF PublishAnyway, LoseNotice, macVars, deviceVars
    <2>2. active.ver \in Nat /\ active \in authored /\ authored \subseteq Config
      BY ConfigVersions DEF IInv, OnlyAuthored
    <2>3. notice' \in Nat /\ notice' <= active'.ver
      <3>1. notice' = Unknown \/ PublishState
        BY <1>6 DEF PublishAnyway, LoseNotice
      <3> QED
        BY <2>1, <2>2, <3>1, PublishStep DEF Unknown
    <2> QED
      BY <2>1, <2>3 DEF IInv, OnlyAuthored, CommitIsValidated, StagedIsComplete,
                        FlashIsAhead, SeenIsActive
  <1> QED
    BY <1>1, <1>2, <1>3, <1>4, <1>5, <1>6 DEF Device, MainTask

\* The invariant is inductive: what is under way was authored, what is being
\* committed was validated, flash is never behind what is in force, and the
\* Mac is never ahead of it.
THEOREM Invariance == Spec => []IInv
  <1>1. ASSUME IInv, [Next]_vars
        PROVE  IInv'
    <2>1. CASE UNCHANGED vars
      BY <1>1, <2>1 DEF vars, IInv, OnlyAuthored, CommitIsValidated, StagedIsComplete,
                        FlashIsAhead, SeenIsActive
    <2> QED
      BY <1>1, <2>1, MacStep, DeviceStep DEF Next
  <1> QED
    BY Initially, <1>1, PTL DEF Spec

\* device_shortcut_config_commit writes flash before it activates and publishes:
\* a version the Mac was told of survives a power loss.
THEOREM SeenVersionsAreStored == Spec => []SeenIsStored
  <1>1. IInv => SeenIsStored
    <2> SUFFICES ASSUME IInv, NEW v \in {observed, notice}, v > Factory.ver
                 PROVE  nvs # None /\ nvs.ver >= v
      BY DEF SeenIsStored
    <2>1. v \in Nat /\ v <= active.ver /\ active.ver \in Nat /\ Factory.ver = 1
      BY ConfigVersions DEF IInv, OnlyAuthored, SeenIsActive
    <2>2. nvs # None
      BY <2>1 DEF IInv, FlashIsAhead
    <2>3. nvs.ver \in Nat
      BY <2>2, ConfigVersions DEF IInv, OnlyAuthored
    <2> QED
      BY <2>1, <2>2, <2>3 DEF IInv, FlashIsAhead
  <1> QED
    BY Invariance, <1>1, PTL

\* Only a commit and a restart change what is in force, and both adopt a whole
\* authored configuration with a higher version.
LEMMA RegisterStep ==
    ASSUME IInv, [Next]_vars
    PROVE  [Register!Next]_<<authored, active>>
  <1>1. CASE Edit \/ ForceNextVersion
    <2>1. active' = active /\ authored \subseteq authored'
      BY <1>1 DEF Edit, ForceNextVersion, Author, deviceVars
    <2>2. IInv'
      BY <1>1, MacStep DEF Mac
    <2> QED
      BY <2>1, <2>2 DEF IInv, OnlyAuthored, Register!Next, Register!Author
  <1>2. CASE Activate
    BY <1>2, ActivateStep DEF Register!Next, Register!Adopt
  <1>3. CASE Restart
    BY <1>3, RestartStep DEF Register!Next, Register!Adopt
  <1>4. CASE SyncIfNeeded \/ SyncByHand \/ ObserveState \/ Forget \/ Connect \/ Disconnect
             \/ WriteFails \/ StartWithoutFile
    BY <1>4 DEF SyncIfNeeded, SyncByHand, Enqueue, ObserveState, Forget, Connect, Disconnect,
                WriteFails, StartWithoutFile, macVars, deviceVars
  <1>5. CASE HandlePrepare \/ HandleChunk \/ BeginCommit
    BY <1>5 DEF HandlePrepare, HandleChunk, BeginCommit, Take, macVars
  <1>6. CASE Receive \/ Store \/ Flush \/ PublishAnyway \/ StoreFails \/ LoseNotice
    BY <1>6 DEF Receive, Store, Flush, AtCommit, PublishAnyway, StoreFails, LoseNotice,
                macVars, deviceVars
  <1>7. CASE UNCHANGED vars
    BY <1>7 DEF vars
  <1> QED
    BY <1>1, <1>2, <1>3, <1>4, <1>5, <1>6, <1>7 DEF Next, Mac, Device, MainTask

\* Whatever was dropped, mixed or interrupted, the mappings in force are a whole
\* authored configuration, and its version never goes back.
THEOREM RefinesRegister == Spec => ImplementsRegister
  <1>1. Init => Register!Init
    BY ConfigVersions DEF Init, Register!Init
  <1> QED
    BY <1>1, Invariance, RegisterStep, PTL DEF Spec, ImplementsRegister, Register!Spec
=============================================================================
