------------------------- MODULE MC_SafetyController -------------------------
(* Values shared by the configurations of SafetyController. *)
EXTENDS SafetyController

NoService == {}
OnlyFsm == {"fsm"}
OnePeer == {"attitude"}
OneElapsed == {"watchdog 1600 ms"}
==============================================================================
