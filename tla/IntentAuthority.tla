-------------------------- MODULE IntentAuthority --------------------------
(***************************************************************************)
(* MicrophoneIntentAuthority: who decides the microphone intent, the user  *)
(* of the app or the device.  An authority is a record: what the app       *)
(* wants, what the device last said, whether it was seen muted in this     *)
(* connection session, and whether a press in the app awaits the device.   *)
(***************************************************************************)
Intent == {"muted", "live"}

Authority == [desired : Intent, observed : Intent, baseline : BOOLEAN, pending : BOOLEAN]

NewAuthority ==
    [desired |-> "muted", observed |-> "muted", baseline |-> FALSE, pending |-> FALSE]

\* A mutation: the session that begins keeps what the app wanted.
BeginKeepingDesired(a) == [a EXCEPT !.baseline = FALSE, !.pending = FALSE]

BeginConnectionSession(a) ==
    [a EXCEPT !.desired = "muted", !.baseline = FALSE, !.pending = FALSE]

\* observeDeviceIntent: the device decides, once it was seen muted, unless a
\* press in the app awaits its answer.
Observe(a, intent) ==
    LET seen == [a EXCEPT !.observed = intent] IN
    IF ~a.baseline THEN [seen EXCEPT !.baseline = intent = "muted"]
    ELSE IF a.pending THEN [seen EXCEPT !.pending = intent # a.desired]
    ELSE [seen EXCEPT !.desired = intent]

\* What observeDeviceIntent returns.
NeedsCorrection(a, intent) ==
    IF ~a.baseline THEN intent = "live" ELSE a.pending /\ intent # a.desired

Opposite(intent) == IF intent = "muted" THEN "live" ELSE "muted"

\* A mutation: every press inverts.
ToggleAlways(a) == [a EXCEPT !.desired = Opposite(@), !.pending = TRUE]

\* toggleByUser: a press inverts only what the device has confirmed.
ToggleByUser(a) ==
    IF ~a.baseline \/ a.pending \/ a.desired # a.observed THEN a
    ELSE [a EXCEPT !.desired = Opposite(@), !.pending = TRUE]
=============================================================================
