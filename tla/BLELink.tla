------------------------------ MODULE BLELink ------------------------------
(***************************************************************************)
(* The device's end of the Bluetooth link: ble_bridge.c, with the prompt   *)
(* of a pairing that the main task shows and answers.                      *)
(*                                                                         *)
(* Three tasks write its flags.  Bluedroid's task runs the callbacks of    *)
(* GAP and of the vendor service; the HID events reach the event loop's    *)
(* task through a queue; the main task polls.  All are on one core, and    *)
(* the main task has the lowest priority: a callback is one step to it,    *)
(* and the two others may interrupt each other and it anywhere.            *)
(*                                                                         *)
(* The stack and the radio are not the project's: the device advertises    *)
(* until a Mac connects, a link ends at any time, and its ATT channel is   *)
(* taken down before a pairing that it carried fails.  The subscriptions,  *)
(* the service-change indication and the values written by the Mac are left *)
(* out; DeviceControl has what becomes of the values and the link's edges.  *)
(***************************************************************************)
EXTENDS Naturals, Sequences

VARIABLES
    advertising,    \* the controller advertises
    connection,     \* "up" or "down"
    secure,         \* history: this link has been authenticated
    pairing,        \* what the stack waits for
    events,         \* the HID events on their way to the event loop
    advDue,         \* the advertising data is not set yet
    advertisement_configured, hid_started, hid_connected,
    control_authenticated, vendor_connected,
    visible, needs, \* s_pairing_prompt_visible, s_pairing_needs_confirmation
    gap,            \* Bluedroid's task: what it is in the middle of
    loop,           \* the event loop's task, likewise
    main,           \* the main task, likewise
    shown,          \* its copy of the prompt, made once a turn
    down,           \* G0 is down
    pairing_g0_press

stackVars == <<advertising, connection, secure, pairing>>
flags     == <<advertisement_configured, hid_started, hid_connected,
               control_authenticated, vendor_connected>>
prompt    == <<visible, needs>>
buttonVars  == <<main, shown, down, pairing_g0_press>>
linkVars == <<stackVars, events, advDue, flags, prompt, gap, loop, buttonVars>>

LinkTypeOK ==
    /\ advertising \in BOOLEAN /\ connection \in {"up", "down"} /\ secure \in BOOLEAN
    /\ pairing \in {"none", "comparing", "entering", "answered"}
    /\ events \in Seq({"start", "connect", "disconnect"}) /\ Len(events) <= 3
    /\ {advDue, advertisement_configured, hid_started, hid_connected,
        control_authenticated, vendor_connected, visible, needs, down,
        pairing_g0_press} \subseteq BOOLEAN
    /\ gap \in {"idle", "check", "drop", "fail"}
    /\ loop \in {"idle", "clear", "check"}
    /\ main \in {"poll", "button", "confirm", "hide", "clear", "reply"}
    /\ shown \in [visible : BOOLEAN, needs : BOOLEAN]

\* ble_bridge_start has registered the callbacks and asked for the
\* advertising data and for the HID device; the stack answers later.
LinkInit ==
    /\ advertising = FALSE /\ connection = "down" /\ secure = FALSE /\ pairing = "none"
    /\ events = <<"start">> /\ advDue = TRUE
    /\ advertisement_configured = FALSE /\ hid_started = FALSE
    /\ hid_connected = FALSE /\ control_authenticated = FALSE
    /\ vendor_connected = FALSE /\ visible = FALSE /\ needs = FALSE
    /\ gap = "idle" /\ loop = "idle" /\ main = "poll"
    /\ shown = [visible |-> FALSE, needs |-> FALSE]
    /\ down = FALSE /\ pairing_g0_press = FALSE

\* A caller may be interrupted before it gets here, never in here: a start
\* that another task has made already is harmless.
StartAdvertisingIfReady ==
    advertising' = (advertising \/ (advertisement_configured /\ hid_started /\ ~hid_connected))

-----------------------------------------------------------------------------
(***************************************************************************)
(* gap_event_handler and vendor_gatts_event_handler.                       *)
(***************************************************************************)

\* A mutation: the advertising is left to the start of the HID device.
AdvDataSetOnly ==
    /\ gap = "idle" /\ advDue /\ advDue' = FALSE
    /\ advertisement_configured' \in BOOLEAN
    /\ UNCHANGED <<stackVars, events, hid_started, hid_connected,
                   control_authenticated, vendor_connected, prompt, gap, loop,
                   buttonVars>>

AdvDataSet ==
    /\ gap = "idle" /\ advDue /\ advDue' = FALSE
    /\ advertisement_configured' \in BOOLEAN
    /\ gap' = "check"
    /\ UNCHANGED <<stackVars, events, hid_started, hid_connected,
                   control_authenticated, vendor_connected, prompt, loop,
                   buttonVars>>

AdvDataChecked ==
    /\ gap = "check" /\ gap' = "idle"
    /\ StartAdvertisingIfReady
    /\ UNCHANGED <<connection, secure, pairing, events, advDue, flags, prompt, loop,
                   buttonVars>>

\* A Mac connects, and is asked to authenticate.  That takes longer than the
\* few instructions between a task's look at the flags and its start of the
\* advertising.
Connect ==
    /\ gap = "idle" /\ loop # "check"
    /\ advertising /\ connection = "down"
    /\ connection' = "up" /\ advertising' = FALSE /\ secure' = FALSE
    /\ vendor_connected' = TRUE /\ events' = Append(events, "connect")
    /\ UNCHANGED <<pairing, advDue, advertisement_configured, hid_started,
                   hid_connected, control_authenticated, prompt, gap, loop,
                   buttonVars>>

\* The link ends: the HID service is told first, then the vendor service.
LinkLost ==
    /\ gap = "idle" /\ connection = "up"
    /\ connection' = "down" /\ secure' = FALSE
    /\ events' = Append(events, "disconnect") /\ gap' = "drop"
    /\ UNCHANGED <<advertising, pairing, advDue, flags, prompt, loop, buttonVars>>

VendorDisconnected ==
    /\ gap = "drop" /\ gap' = IF pairing = "none" THEN "idle" ELSE "fail"
    /\ vendor_connected' = FALSE
    /\ UNCHANGED <<stackVars, events, advDue, advertisement_configured,
                   hid_started, hid_connected, control_authenticated, prompt,
                   loop, buttonVars>>

\* The Mac wants a pairing: six digits to compare, or to enter on the Mac.
PairingPrompt ==
    /\ gap = "idle" /\ connection = "up" /\ pairing = "none"
    /\ \E numeric \in BOOLEAN :
        /\ pairing' = IF numeric THEN "comparing" ELSE "entering"
        /\ visible' = TRUE /\ needs' = numeric
    /\ UNCHANGED <<advertising, connection, secure, events, advDue, flags, gap, loop,
                   buttonVars>>

\* ESP_GAP_BLE_AUTH_CMPL_EVT ends a pairing, or an encryption with the keys
\* of an earlier one.
Authenticated(success) ==
    /\ control_authenticated' = success /\ secure' = success
    /\ visible' = FALSE /\ needs' = FALSE /\ pairing' = "none"
    /\ UNCHANGED <<advertising, connection, events, advDue, advertisement_configured,
                   hid_started, hid_connected, vendor_connected, loop, buttonVars>>

AuthCompleted ==
    \/ /\ gap = "idle" /\ connection = "up" /\ UNCHANGED gap
       /\ \E success \in BOOLEAN :
            (success => pairing # "comparing") /\ Authenticated(success)
    \/ gap = "fail" /\ gap' = "idle" /\ Authenticated(FALSE)

Bluedroid ==
    \/ AdvDataSet \/ AdvDataChecked \/ Connect \/ LinkLost
    \/ VendorDisconnected \/ PairingPrompt \/ AuthCompleted

-----------------------------------------------------------------------------
(***************************************************************************)
(* hid_event_handler.                                                      *)
(***************************************************************************)
Event(kind) ==
    /\ loop = "idle" /\ events # <<>> /\ Head(events) = kind
    /\ events' = Tail(events)

HidStarted ==
    /\ Event("start")
    /\ hid_started' = TRUE /\ loop' = "check"
    /\ UNCHANGED <<stackVars, advDue, advertisement_configured, hid_connected,
                   control_authenticated, vendor_connected, prompt, gap, buttonVars>>

HidConnected ==
    /\ Event("connect")
    /\ hid_connected' = TRUE
    /\ UNCHANGED <<stackVars, advDue, advertisement_configured, hid_started,
                   control_authenticated, vendor_connected, prompt, gap, loop,
                   buttonVars>>

\* A mutation: the device advertises before its state is cleared.
HidDisconnectedEarly ==
    /\ Event("disconnect")
    /\ hid_connected' = FALSE /\ loop' = "clear"
    /\ advertising' = TRUE
    /\ UNCHANGED <<connection, secure, pairing, advDue, advertisement_configured,
                   hid_started, control_authenticated, vendor_connected, prompt,
                   gap, buttonVars>>

HidDisconnected ==
    /\ Event("disconnect")
    /\ hid_connected' = FALSE /\ loop' = "clear"
    /\ UNCHANGED <<stackVars, advDue, advertisement_configured, hid_started,
                   control_authenticated, vendor_connected, prompt, gap, buttonVars>>

HidCleared ==
    /\ loop = "clear" /\ loop' = "check"
    /\ control_authenticated' = FALSE
    /\ UNCHANGED <<stackVars, events, advDue, advertisement_configured,
                   hid_started, hid_connected, vendor_connected, prompt, gap,
                   buttonVars>>

HidChecked ==
    /\ loop = "check" /\ loop' = "idle"
    /\ StartAdvertisingIfReady
    /\ UNCHANGED <<connection, secure, pairing, events, advDue, flags, prompt, gap,
                   buttonVars>>

EventLoop ==
    HidStarted \/ HidConnected \/ HidDisconnected \/ HidCleared \/ HidChecked

-----------------------------------------------------------------------------
(***************************************************************************)
(* The main task's turn: a copy of the prompt, then the G0 button.         *)
(***************************************************************************)
GoesTo(from, to) == main = from /\ main' = to

Poll ==
    /\ GoesTo("poll", "button")
    /\ shown' = [visible |-> visible, needs |-> needs]
    /\ UNCHANGED <<stackVars, prompt, down, pairing_g0_press>>

\* A press while a recording runs or starts is not for the prompt.
Press ==
    /\ GoesTo("button", "poll") /\ ~down /\ down' = TRUE
    /\ pairing_g0_press' \in {FALSE, shown.visible}
    /\ UNCHANGED <<stackVars, prompt, shown>>

Release ==
    /\ main = "button" /\ down /\ down' = FALSE
    /\ main' = IF pairing_g0_press /\ shown.visible /\ shown.needs
               THEN "confirm" ELSE "poll"
    /\ pairing_g0_press' = FALSE
    /\ UNCHANGED <<stackVars, prompt, shown>>

NoEdge ==
    /\ GoesTo("button", "poll")
    /\ UNCHANGED <<stackVars, prompt, shown, down, pairing_g0_press>>

\* A mutation: the prompt is hidden after the reply.
ConfirmPairingFirst ==
    \/ /\ main = "confirm"
       /\ main' = IF visible /\ needs THEN "hide" ELSE "poll"
       /\ pairing' = IF visible /\ needs /\ pairing = "comparing"
                     THEN "answered" ELSE pairing
       /\ UNCHANGED <<advertising, connection, secure, prompt>>
    \/ /\ GoesTo("hide", "clear")
       /\ visible' = FALSE /\ UNCHANGED <<stackVars, needs>>
    \/ /\ GoesTo("clear", "poll")
       /\ needs' = FALSE /\ UNCHANGED <<stackVars, visible>>

\* ble_bridge_confirm_pairing: the prompt may have gone since the copy.  A
\* reply nobody waits for is ignored by the stack.
ConfirmPairing ==
    \/ /\ main = "confirm"
       /\ main' = IF visible /\ needs THEN "hide" ELSE "poll"
       /\ UNCHANGED <<stackVars, prompt>>
    \/ /\ GoesTo("hide", "clear")
       /\ visible' = FALSE /\ UNCHANGED <<stackVars, needs>>
    \/ /\ GoesTo("clear", "reply")
       /\ needs' = FALSE /\ UNCHANGED <<stackVars, visible>>
    \/ /\ GoesTo("reply", "poll")
       /\ pairing' = IF pairing = "comparing" THEN "answered" ELSE pairing
       /\ UNCHANGED <<advertising, connection, secure, prompt>>

MainTurn ==
    /\ \/ Poll \/ Press \/ Release \/ NoEdge
       \/ ConfirmPairing /\ UNCHANGED <<shown, down, pairing_g0_press>>
    /\ UNCHANGED <<events, advDue, flags, gap, loop>>
-----------------------------------------------------------------------------
LinkNext == Bluedroid \/ EventLoop \/ MainTurn

LinkSpec == LinkInit /\ [][LinkNext]_linkVars

\* The stack answers the two requests of the start, finishes the callbacks it
\* has begun, and the event loop's queue is served.
FairLinkSpec ==
    /\ LinkSpec
    /\ WF_linkVars(AdvDataSet) /\ WF_linkVars(AdvDataChecked)
    /\ WF_linkVars(VendorDisconnected) /\ WF_linkVars(EventLoop)

-----------------------------------------------------------------------------
(***************************************************************************)
(* Properties.                                                             *)
(***************************************************************************)

\* What the device holds to be an authenticated Mac is the one of this link:
\* the flag is cleared by another task than the one that sees links come and
\* go, and the next link may come at once.
AuthenticatedIsThisLink == connection = "up" /\ control_authenticated => secure

LinkInvariant == LinkTypeOK /\ AuthenticatedIsThisLink

\* A comparison the Mac waits for is on the screen or being answered, and what
\* is on the screen is still waited for, however pairings fail and follow each
\* other while the main task answers.
PromptFollowsPairing ==
    /\ pairing = "comparing" /\ main \in {"poll", "button", "confirm"} => visible /\ needs
    /\ visible /\ gap = "idle" => pairing # "none"

\* A device without a link can be found: the two tasks that wait for each
\* other at the start do not both leave it to the other, and no loss of a
\* link leaves it silent.
CanBeFound ==
    advertisement_configured /\ hid_started ~> advertising \/ connection = "up"
=============================================================================
