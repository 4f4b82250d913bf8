------------------------ MODULE MCDeviceControlLive ------------------------
(***************************************************************************)
(* The liveness instance: Wi-Fi and the receiver stay up once they are up, *)
(* and no update is started.  Neither can reopen what the two properties   *)
(* close, or delay what they restore.                                      *)
(***************************************************************************)
EXTENDS DeviceControl

StableAudio == (wifiUp => wifiUp') /\ (ready => ready') /\ ~ota'

LiveSpec == Init /\ [][Next /\ StableAudio]_vars /\ Fairness
=============================================================================
