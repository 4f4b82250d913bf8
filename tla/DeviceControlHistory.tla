------------------------ MODULE DeviceControlHistory ------------------------
(***************************************************************************)
(* DeviceControl with history variables, for three statements the          *)
(* repository makes about the lease and about the loss of the link, and    *)
(* that the loop does not keep.  The history never restricts a step.       *)
(***************************************************************************)
EXTENDS DeviceControl

VARIABLES
    mutedFor,   \* ticks the intent has been muted since it was last live
    oldLive     \* what became of a pending "live" request of a lost link

hvars == <<link, ctlAuth, discEvent, beat, remote, ota, wifiUp, ready, pc,
           domain, lease, lastAuth, seenAuth, tookEvent, capture, mutedFor,
           oldLive>>

HInit == Init /\ mutedFor = AgeCap /\ oldLive = "none"

TrackMuted ==
    mutedFor' = IF domain'.intent = "live" THEN 0
                ELSE IF lease'.age > lease.age
                     THEN Capped(mutedFor + (lease'.age - lease.age))
                     ELSE mutedFor

\* A "live" request that is pending when its link goes down ("pending"), and
\* is still pending when the loop has handled the loss ("outlived").
TrackRequest ==
    oldLive' =
        CASE remote' # remote                        -> "none"
          [] link' = "dropping" /\ remote' = "live"
             /\ oldLive = "none"                     -> "pending"
          [] oldLive = "pending" /\ pc = "clear"
             /\ tookEvent /\ pc' = "auth"            -> "outlived"
          [] OTHER                                   -> oldLive

HNext == Next /\ TrackMuted /\ TrackRequest

HSpec == HInit /\ [][HNext]_hvars

\* "a muted control lease must survive before three missed cycles": the lease
\* check never declares the link lost while the intent has been muted for
\* less than the muted lease.  It does: the short lease is applied to a
\* heartbeat that was last due in the long, live cadence.
MutedLeaseSurvives ==
    [][pc = "beat" /\ pc' = "intent" /\ domain.ble /\ ~domain'.ble
           /\ domain.intent = "muted"
        => mutedFor >= MutedLease]_hvars

\* "control_link_lost must clear the live intent and close the capture gate":
\* once the loop has handled the loss of a link, a request that was received
\* over that link does not make the intent live again.
LossCancelsPendingLive ==
    [][oldLive = "outlived" => ~(domain.intent = "muted"
                                 /\ domain'.intent = "live"
                                 /\ pc = "intent")]_hvars
=============================================================================
