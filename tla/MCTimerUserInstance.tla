------------------------ MODULE MCTimerUserInstance ------------------------
(* Instances of TimerUserInstance; see the MCTimerUserInstance*.cfg files. *)
EXTENDS TimerUserInstance
=============================================================================
