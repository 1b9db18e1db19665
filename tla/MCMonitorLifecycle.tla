------------------------- MODULE MCMonitorLifecycle -------------------------
(* Instances of MonitorLifecycle for TLC. *)
EXTENDS MonitorLifecycle

Monitor(passive, inTurn) == [passive |-> passive, inTurn |-> inTurn]

(* Calls that overlap on a polled monitor, calls in turn on a passive one. *)
AllSettings  == { Monitor(FALSE, FALSE), Monitor(TRUE, TRUE) }
PushSettings == { Monitor(TRUE, TRUE) }
=============================================================================
