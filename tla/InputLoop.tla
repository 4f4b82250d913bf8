------------------------------ MODULE InputLoop ------------------------------
(***************************************************************************)
(* The physical input of the Cardputer: the part of app_main's turn that   *)
(* samples the G0 button, reads the keyboard, drives the InputRouter and   *)
(* applies its effects to the HID link and to the microphone intent.       *)
(*                                                                         *)
(* All of it runs in the main task; pc names the next stage of the turn.   *)
(* The BLE host connects, authenticates and drops the HID link at any      *)
(* moment.  `host` is the report the Mac last received.                    *)
(***************************************************************************)
EXTENDS InputRouter

CONSTANTS
    StableRelease,      \* kG0StableReleaseMs, in ticks
    Turn,               \* the longest turn of the loop, in ticks
    Capacity,           \* kMaxShortcutMappings
    Candidates          \* the mapping tables a configuration may hold

ASSUME LoopAssumption ==
    /\ StableRelease \in Nat \ {0} /\ Turn \in Nat \ {0} /\ Capacity \in Nat
    /\ \A c \in Candidates : c \in Seq(Mapping)

VARIABLES
    hidUp,      \* s_hid_connected
    disc,       \* s_disconnect_event
    auth,       \* s_control_authenticated
    host,       \* the report the Mac holds
    pc,
    router, table,
    sampled,    \* was the button pressed when it was last sampled?
    guard,      \* G0RecordingStopGuard
    ignored,    \* activation_g0_press_ignored
    pairing,    \* pairing_g0_press
    stopped,    \* g0_press_stopped_microphone
    down,       \* the keys that are physically down
    intent, lastAuth,
    out,        \* the effects asked for by this step
    acted,      \* history: intent changes of the current G0 press
    young       \* history: ticks since a G0 release started a recording

linkVars  == <<hidUp, disc, auth>>
g0Vars    == <<sampled, guard, ignored, pairing, stopped>>
history   == <<acted, young>>
effected  == <<router, out, host, intent>>
vars      == <<linkVars, g0Vars, history, effected, pc, table, down, lastAuth>>

Guard == [armed : BOOLEAN, tracking : BOOLEAN, since : 0..StableRelease]
Effects == [kind : {"hid"}, report : Report]
           \union [kind : {"feedback", "not_mapped", "toggle", "control_lost"}]
           \union [kind : {"learned", "cancelled"}, token : Token]

TypeOK ==
    /\ hidUp \in BOOLEAN /\ disc \in BOOLEAN /\ auth \in BOOLEAN
    /\ host \in Report /\ router \in Router
    /\ pc \in {"turn", "commands", "button", "keys", "releases", "events",
               "poll", "disconnect", "auth", "intent"}
    /\ table \in {ToSet(c) : c \in Candidates} \union {{}}
    /\ sampled \in BOOLEAN /\ guard \in Guard /\ ignored \in BOOLEAN
    /\ pairing \in BOOLEAN /\ stopped \in BOOLEAN /\ down \subseteq Usage
    /\ intent \in {"muted", "live"} /\ lastAuth \in BOOLEAN
    /\ \A i \in DOMAIN out : out[i] \in Effects
    /\ acted \in 0..2 /\ young \in 0..StableRelease

Init ==
    /\ hidUp = FALSE /\ disc = FALSE /\ auth = FALSE /\ host = Neutral
    /\ pc = "turn" /\ router = Idle /\ table = {}
    /\ sampled = FALSE
    /\ guard = [armed |-> FALSE, tracking |-> FALSE, since |-> 0]
    /\ ignored = FALSE /\ pairing = FALSE /\ stopped = FALSE /\ down = {}
    /\ intent = "muted" /\ lastAuth = FALSE /\ out = <<>>
    /\ acted = 0 /\ young = StableRelease

-----------------------------------------------------------------------------
(***************************************************************************)
(* apply_input_result: the effects that fit, in their order.               *)
(***************************************************************************)
AtMost(n, max) == IF n > max THEN max ELSE n

Kept(effects) == SubSeq(effects, 1, AtMost(Len(effects), MaxEffects))

\* The places of the reports among the effects.
Reports(effects) == {i \in DOMAIN effects : effects[i].kind = "hid"}

Has(effects, kind) == \E i \in DOMAIN effects : effects[i].kind = kind

\* ble_bridge_send_hid fails without a link; a sent report replaces the last.
HostAfter(effects) ==
    IF hidUp /\ Reports(effects) # {} THEN effects[Max(Reports(effects))].report
                                      ELSE host

IntentAfter(effects, before) ==
    IF Has(effects, "control_lost") THEN "muted"
    ELSE IF Has(effects, "toggle")
         THEN IF before = "live" THEN "muted" ELSE "live"
    ELSE before

Apply(result, before) ==
    /\ router' = result.router
    /\ out' = result.effects
    /\ host' = HostAfter(Kept(result.effects))
    /\ intent' = IntentAfter(Kept(result.effects), before)

NoEffect == out' = <<>> /\ UNCHANGED <<router, host, intent>>

Goto(from, to) == pc = from /\ pc' = to

-----------------------------------------------------------------------------
(***************************************************************************)
(* The BLE host.  The Mac forgets the keys of a keyboard that disconnects. *)
(* The event of a disconnect that falls between the loop's read of the     *)
(* flag and its clear is lost (module DeviceControl).                      *)
(***************************************************************************)
LinkUp ==
    /\ ~hidUp /\ hidUp' = TRUE
    /\ UNCHANGED <<disc, auth, host>>

LinkAuthenticated ==
    /\ hidUp /\ ~auth /\ auth' = TRUE
    /\ UNCHANGED <<hidUp, disc, host>>

LinkDown ==
    /\ hidUp /\ hidUp' = FALSE /\ auth' = FALSE /\ host' = Neutral
    /\ disc' \in {disc, TRUE}

BleHost ==
    /\ LinkUp \/ LinkAuthenticated \/ LinkDown
    /\ out' = <<>>
    /\ UNCHANGED <<router, intent, g0Vars, history, pc, table, down, lastAuth>>

-----------------------------------------------------------------------------
(***************************************************************************)
(* G0RecordingStopGuard.                                                   *)
(***************************************************************************)
RecordingStarted == [armed |-> FALSE, tracking |-> TRUE, since |-> 0]
StopConsumed     == [armed |-> FALSE, tracking |-> FALSE, since |-> 0]

\* A mutation: a released button is stable at once.
ObserveWithoutWaiting(g, released) ==
    IF g.armed THEN g
    ELSE IF ~released THEN StopConsumed
    ELSE [g EXCEPT !.armed = TRUE]

Observe(g, released) ==
    IF g.armed THEN g
    ELSE IF ~released THEN StopConsumed
    ELSE IF ~g.tracking THEN RecordingStarted
    ELSE [g EXCEPT !.armed = (g.since >= StableRelease)]

-----------------------------------------------------------------------------
(***************************************************************************)
(* The stages of a turn.                                                   *)
(***************************************************************************)
TurnStart(d) ==
    /\ Goto("turn", "commands")
    /\ router' = Aged(router, d)
    /\ guard' = [guard EXCEPT !.since = IF guard.tracking
                                        THEN AtMost(@ + d, StableRelease) ELSE 0]
    /\ young' = AtMost(young + d, StableRelease)
    /\ out' = <<>>
    /\ UNCHANGED <<linkVars, sampled, ignored, pairing, stopped, acted, host,
                   intent, table, down, lastAuth>>

\* The command queue is drained: learning requests and new mappings.
Command ==
    /\ pc = "commands" /\ UNCHANGED pc
    /\ \/ \E t \in Token : Apply(BeginLearning(router, t), intent)
                           /\ UNCHANGED table
       \/ \E t \in Token : Apply(CancelLearning(router, t), intent)
                           /\ UNCHANGED table
       \/ \E c \in Candidates : /\ table' = ReplaceMappings(table, c, Capacity)
                                /\ NoEffect
    /\ UNCHANGED <<linkVars, g0Vars, history, down, lastAuth>>

CommandsDone ==
    /\ Goto("commands", "button")
    /\ NoEffect
    /\ UNCHANGED <<linkVars, g0Vars, history, table, down, lastAuth>>

\* A press while a recording is live but not yet armed to stop is ignored; a
\* press that stops the microphone is still a G0 press; a press under a
\* pairing prompt belongs to the prompt.
PressButton(prompt, g) ==
    IF intent = "live" /\ ~g.armed
    THEN /\ ignored' = TRUE /\ pairing' = FALSE /\ stopped' = FALSE
         /\ guard' = g /\ acted' = 0
         /\ NoEffect
    ELSE /\ UNCHANGED ignored
         /\ guard' = IF intent = "live" THEN StopConsumed ELSE g
         /\ acted' = IF intent = "live" THEN 1 ELSE 0
         /\ IF prompt /\ intent = "muted"
            THEN pairing' = TRUE /\ stopped' = FALSE /\ NoEffect
            ELSE /\ pairing' = FALSE /\ stopped' = (intent = "live")
                 /\ Apply(G0Down(router), "muted")

\* A mutation: the release of a press that stopped the microphone toggles.
ReleaseForgettingStop(g) ==
    /\ ignored' = FALSE /\ pairing' = FALSE /\ stopped' = FALSE
    /\ IF ignored \/ pairing
       THEN guard' = g /\ NoEffect
       ELSE /\ Apply(G0Up(router, table, TRUE), intent)
            /\ guard' = IF intent = "muted" /\ intent' = "live"
                        THEN RecordingStarted ELSE g

ReleaseButton(g) ==
    /\ ignored' = FALSE /\ stopped' = FALSE
    /\ pairing' = (pairing /\ ignored)
    /\ IF ignored \/ pairing
       THEN guard' = g /\ NoEffect
       ELSE /\ Apply(G0Up(router, table, ~stopped), intent)
            /\ guard' = IF intent = "muted" /\ intent' = "live"
                        THEN RecordingStarted ELSE g

Button(pressed, prompt) ==
    /\ Goto("button", "keys")
    /\ sampled' = pressed
    /\ LET g == Observe(guard, ~pressed)
       IN  CASE pressed /\ ~sampled -> PressButton(prompt, g) /\ UNCHANGED young
             [] ~pressed /\ sampled ->
                    /\ ReleaseButton(g)
                    /\ acted' = IF intent' # intent THEN acted + 1 ELSE acted
                    /\ young' = IF intent = "muted" /\ intent' = "live"
                                THEN 0 ELSE young
             [] OTHER -> /\ guard' = g /\ NoEffect
                         /\ UNCHANGED <<ignored, pairing, stopped, history>>
    /\ UNCHANGED <<linkVars, table, down, lastAuth>>

\* Any physical press in the keyboard's queue stops a live microphone before
\* the events of the queue are routed.
Keyboard ==
    /\ \/ /\ Goto("keys", "events")
          /\ intent' = "muted"
       \/ /\ Goto("keys", "releases")
          /\ UNCHANGED intent
    /\ out' = <<>>
    /\ UNCHANGED <<linkVars, g0Vars, history, router, host, table, down, lastAuth>>

KeyEvent(u) ==
    /\ pc \in {"events", "releases"} /\ UNCHANGED pc
    /\ \/ /\ u \notin down /\ pc = "events"
          /\ down' = down \union {u}
          /\ Apply(KeyDown(router, u, table), intent)
       \/ /\ u \in down
          /\ down' = down \ {u}
          /\ Apply(KeyUp(router, u), intent)
    /\ UNCHANGED <<linkVars, g0Vars, history, table, lastAuth>>

KeysDone ==
    /\ pc \in {"events", "releases"} /\ pc' = "poll"
    /\ NoEffect
    /\ UNCHANGED <<linkVars, g0Vars, history, table, down, lastAuth>>

Poll ==
    /\ Goto("poll", "disconnect")
    /\ Apply(PollLearning(router), intent)
    /\ UNCHANGED <<linkVars, g0Vars, history, table, down, lastAuth>>

TakeDisconnectEvent ==
    /\ Goto("disconnect", "auth")
    /\ IF disc THEN Apply(BleDisconnected(router), intent) ELSE NoEffect
    /\ disc' = FALSE
    /\ UNCHANGED <<hidUp, auth, g0Vars, history, table, down, lastAuth>>

SampleAuth ==
    /\ Goto("auth", "intent")
    /\ IF auth /\ ~lastAuth THEN Apply(BleAuthenticated(router), intent)
                            ELSE NoEffect
    /\ lastAuth' = auth
    /\ UNCHANGED <<linkVars, g0Vars, history, table, down>>

\* The lease, the remote request and an update change the intent as well.
OtherIntent ==
    /\ Goto("intent", "turn")
    /\ intent' \in {"muted", "live"}
    /\ out' = <<>>
    /\ UNCHANGED <<linkVars, g0Vars, history, router, host, table, down, lastAuth>>

MainTask ==
    \/ \E d \in 0..Turn : TurnStart(d)
    \/ Command \/ CommandsDone
    \/ \E pressed, prompt \in BOOLEAN : Button(pressed, prompt)
    \/ Keyboard \/ (\E u \in Usage : KeyEvent(u)) \/ KeysDone \/ Poll
    \/ TakeDisconnectEvent \/ SampleAuth \/ OtherIntent

Next == BleHost \/ MainTask

Spec == Init /\ [][Next]_vars

-----------------------------------------------------------------------------
(***************************************************************************)
(* Properties.                                                             *)
(***************************************************************************)

\* The Mac never holds a key nobody presses: whatever is learned, remapped,
\* reconnected or pressed on top, a report with a key belongs to a key that
\* is still down.
NoStuckKey == host # Neutral => router.key \in down

\* The reports the Mac receives go from a key to neutral before they go to
\* the next key, within a dispatch and across dispatches.
KeysApart(effects) ==
    \A i, j \in {i \in Reports(effects) : effects[i].report # Neutral} :
        i < j => \E k \in Reports(effects) : i < k /\ k < j /\ effects[k].report = Neutral

ReportsAlternate == [][hidUp => KeysApart(<<Hid(host)>> \o out')]_vars

\* No dispatch asks for more effects than an InputResult holds: the toggle
\* and the neutral report come last and would be the ones to be dropped.
EffectsFit == Len(out) <= MaxEffects

\* While a shortcut is being learned the keyboard neither types nor toggles.
LearningIsSilent ==
    [][router.learning # NoToken =>
        /\ ~Has(out', "toggle")
        /\ \A i \in Reports(out') : out'[i].report = Neutral]_vars

\* No key sticks on the Mac and no effect is dropped; the types.
InputInvariant == TypeOK /\ EffectsFit /\ NoStuckKey

\* What the Mac is told of the keyboard: one key at a time, and none of what is
\* pressed to be learned.
ReportsAreOrderly == ReportsAlternate /\ LearningIsSilent

\* From its press to its release, G0 changes the intent at most once: the
\* release of the press that stopped a recording does not start the next.
OnePressOneChange == acted <= 1

\* The bounce of the release that started a recording does not stop it.
BounceNeverStops ==
    [][pc = "button" /\ sampled' /\ intent = "live" /\ intent' = "muted"
        => young >= StableRelease]_vars
=============================================================================
