----------------------------- MODULE InputRouter -----------------------------
(***************************************************************************)
(* InputRouter: the pure part of the Cardputer's keyboard.  Every operator *)
(* maps a router state to what the call returns: the next router state and *)
(* the sequence of effects the main task then applies.                     *)
(*                                                                         *)
(* A usage stands for a key together with the modifiers held with it;      *)
(* reports are the keyboard reports sent to the Mac.  Instants are kept as *)
(* the time that has passed since them.                                    *)
(***************************************************************************)
EXTENDS Naturals, Sequences, SequencesExt

CONSTANTS
    Usage,          \* the keys, with their modifiers
    Output,         \* the reports a mapping may send
    NoKey, NoToken,
    Token,          \* the tokens of a learning request
    ShortPress,     \* kG0ShortPressMaxMs, in ticks
    LearnTimeout    \* kShortcutLearningTimeoutMs, in ticks

ASSUME RouterAssumption ==
    /\ NoKey \notin Usage /\ NoToken \notin Token
    /\ ShortPress \in Nat /\ LearnTimeout \in Nat \ {0}

\* A mutation: InputResult has room for one effect less.
MaxEffectsThree == 3

MaxEffects == 4             \* InputResult::effects
Neutral == <<"neutral">>    \* the report with no key and no modifier
Typed(u) == <<"typed", u>>  \* the report of an unmapped key
Sends(o) == <<"macro", o>>  \* the output report of a mapping

Report == {Neutral} \union {Typed(u) : u \in Usage}
                    \union {Sends(o) : o \in Output}

\* A mapping is enabled or not, and has one trigger: G0 alone, a key, or both.
Trigger == [g0 : BOOLEAN, usage : Usage \union {NoKey}]
Mapping == [trigger : Trigger, output : Output \union {NoKey}, on : BOOLEAN]

Router ==
    [g0 : BOOLEAN, chord : BOOLEAN,         \* g0_down_, g0_chord_consumed_
     held : 0..ShortPress + 1,              \* at_ms - g0_down_at_ms_
     key : Usage \union {NoKey},            \* active_physical_usage_
     report : Report,                       \* active_report_
     learning : Token \union {NoToken},
     left : 0..LearnTimeout]                \* until shortcut_learning_deadline_ms_

Idle == [g0 |-> FALSE, chord |-> FALSE, held |-> 0, key |-> NoKey,
         report |-> Neutral, learning |-> NoToken, left |-> 0]

Hid(report)      == [kind |-> "hid", report |-> report]
Effect(kind)     == [kind |-> kind]
Learned(token)   == [kind |-> "learned", token |-> token]
Cancelled(token) == [kind |-> "cancelled", token |-> token]

Result(r, effects) == [router |-> r, effects |-> effects]

\* mapping_for: the output of the enabled mapping of a trigger, if any.
Mapped(table, g0, usage) ==
    {m.output : m \in {m \in table : m.on /\ m.trigger = [g0 |-> g0, usage |-> usage]}}

\* replace_mappings: the whole candidate is valid, or nothing changes.  A
\* trigger names a key or G0; an output of no key and no modifier is NoKey.
ValidTable(candidate, capacity) ==
    /\ Len(candidate) <= capacity
    /\ \A i \in DOMAIN candidate :
        /\ candidate[i].trigger # [g0 |-> FALSE, usage |-> NoKey]
        /\ candidate[i].output # NoKey
        /\ \A j \in 1..i-1 : candidate[j].trigger # candidate[i].trigger

ReplaceMappings(table, candidate, capacity) ==
    IF ValidTable(candidate, capacity) THEN ToSet(candidate) ELSE table

-----------------------------------------------------------------------------
G0Forgotten(r) == [r EXCEPT !.g0 = FALSE, !.chord = FALSE, !.held = 0]

NotLearning(r) == [r EXCEPT !.learning = NoToken, !.left = 0]

\* release_active_report: a neutral report, if one is due.
ReleaseEffects(r) == IF r.report = Neutral THEN <<>> ELSE <<Hid(Neutral)>>

Released(r) == [r EXCEPT !.key = NoKey, !.report = Neutral]

\* A mutation: the key that is held when learning begins is not released.
BeginLearningWithoutRelease(r, token) ==
    Result([G0Forgotten(r) EXCEPT !.learning = token, !.left = LearnTimeout],
           <<>>)

BeginLearning(r, token) ==
    Result([G0Forgotten(Released(r)) EXCEPT !.learning = token,
                                            !.left = LearnTimeout],
           ReleaseEffects(r))

StopLearning(r, effect) == Result(G0Forgotten(NotLearning(r)), <<effect>>)

CancelLearning(r, token) ==
    IF r.learning = token THEN StopLearning(r, Cancelled(token))
                          ELSE Result(r, <<>>)

PollLearning(r) ==
    IF r.learning # NoToken /\ r.left = 0
    THEN StopLearning(r, Cancelled(r.learning)) ELSE Result(r, <<>>)

G0Down(r) ==
    IF r.g0 THEN Result(r, <<>>)
    ELSE Result([Released(r) EXCEPT !.g0 = TRUE, !.chord = FALSE, !.held = 0],
                ReleaseEffects(r))

\* A G0 alone is a shortcut of its own and, unless the press stopped the
\* microphone, toggles the intent after the shortcut's neutral report.
ShortPressEffects(r, table, mayToggle) ==
    (IF Mapped(table, TRUE, NoKey) = {} THEN <<>>
     ELSE LET o == CHOOSE o \in Mapped(table, TRUE, NoKey) : TRUE
          IN  <<Hid(Sends(o)), Effect("feedback"), Hid(Neutral)>>)
    \o (IF mayToggle THEN <<Effect("toggle")>> ELSE <<>>)

\* What is left of a press that ends: a shortcut of G0 alone ends neutral.
Lifted(r, table) ==
    IF Mapped(table, TRUE, NoKey) = {} THEN G0Forgotten(r)
                                       ELSE [G0Forgotten(r) EXCEPT !.report = Neutral]

\* A mutation: a short press toggles also when it answers a learning request.
G0UpToggleFirst(r, table, mayToggle) ==
    IF ~r.g0 THEN Result(r, <<>>)
    ELSE IF ~r.chord /\ r.held <= ShortPress
         THEN Result(NotLearning(Lifted(r, table)),
                     ShortPressEffects(r, table, mayToggle))
    ELSE IF r.learning # NoToken THEN StopLearning(r, Learned(r.learning))
    ELSE Result(G0Forgotten(r), <<>>)

G0Up(r, table, mayToggle) ==
    IF ~r.g0 THEN Result(r, <<>>)
    ELSE IF r.learning # NoToken THEN StopLearning(r, Learned(r.learning))
    ELSE IF ~r.chord /\ r.held <= ShortPress
         THEN Result(Lifted(r, table), ShortPressEffects(r, table, mayToggle))
    ELSE Result(G0Forgotten(r), <<>>)

\* A new key first releases the key before it; a chord G0 makes with a key
\* that has no mapping is not typed.
Pressed(r, u, report, more) ==
    Result([r EXCEPT !.key = u, !.report = report, !.chord = @ \/ r.g0],
           ReleaseEffects(r) \o <<Hid(report)>> \o more)

\* A mutation: a key that is pressed while another is held joins it.
KeyDownWithoutRelease(r, u, table) ==
    IF r.learning # NoToken THEN StopLearning(r, Learned(r.learning))
    ELSE IF r.key = u THEN Result(r, <<>>)
    ELSE IF Mapped(table, r.g0, u) # {}
         THEN LET o == CHOOSE o \in Mapped(table, r.g0, u) : TRUE
              IN  Result([r EXCEPT !.key = u, !.report = Sends(o)],
                         <<Hid(Sends(o)), Effect("feedback")>>)
    ELSE IF r.g0 THEN Result(r, <<Effect("not_mapped")>>)
    ELSE Result([r EXCEPT !.key = u, !.report = Typed(u)], <<Hid(Typed(u))>>)

KeyDown(r, u, table) ==
    IF r.learning # NoToken THEN StopLearning(r, Learned(r.learning))
    ELSE IF r.key = u THEN Result(r, <<>>)
    ELSE IF Mapped(table, r.g0, u) # {}
         THEN LET o == CHOOSE o \in Mapped(table, r.g0, u) : TRUE
              IN  Pressed(r, u, Sends(o), <<Effect("feedback")>>)
    ELSE IF r.g0
         THEN Result([Released(r) EXCEPT !.chord = TRUE],
                     ReleaseEffects(r) \o <<Effect("not_mapped")>>)
    ELSE Pressed(r, u, Typed(u), <<>>)

KeyUp(r, u) ==
    IF r.learning # NoToken \/ r.key # u THEN Result(r, <<>>)
    ELSE Result(Released(r), ReleaseEffects(r))

\* The link is primed with a neutral report whatever the router believes.
BleAuthenticated(r) ==
    Result(G0Forgotten(Released(r)), <<Hid(Neutral)>>)

BleDisconnected(r) ==
    Result(G0Forgotten(NotLearning(Released(r))),
           ReleaseEffects(r) \o <<Effect("control_lost")>>)

\* The router's clocks.
Aged(r, d) ==
    [r EXCEPT !.held = IF ~r.g0 THEN 0
                       ELSE IF @ + d > ShortPress THEN ShortPress + 1 ELSE @ + d,
              !.left = IF d > @ THEN 0 ELSE @ - d]
=============================================================================
