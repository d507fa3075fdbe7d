----------------------- MODULE MC_SweepingController -----------------------
(* Values shared by the configurations of SweepingController. *)
EXTENDS SweepingController

AllSources == Sources
NoStop == {"joystick", "navigation"}
OnlyNavigation == {"navigation"}
OnePeriod == [s \in Sources |-> 1]
DefaultPriority == [safety_stop |-> 255, joystick |-> 100, navigation |-> 5]
(* The gains of mode cmd_vel_sweeping, the twist of mode constant_inward. *)
Mapping == [moving \in BOOLEAN |-> moving]
ConstantSpeed == [moving \in BOOLEAN |-> TRUE]
=============================================================================
