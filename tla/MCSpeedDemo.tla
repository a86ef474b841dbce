---------------------------- MODULE MCSpeedDemo ----------------------------
(* Instance of SpeedDemo for TLC: the priorities of FreeRTOSConfig.h, one
   speed on each side of the threshold, strings of one or two characters, up
   to two timer periods elapsed before the daemon runs. *)
EXTENDS SpeedDemo

MCSpeed == {200, 201}
=============================================================================
