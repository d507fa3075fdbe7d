------------------------ MODULE MC_MotorControllers ------------------------
(* The drive and the tool controller for model checking.  They share no    *)
(* state, so that a behavior moves only one of them; and for the drive     *)
(* controller either commands come, with the wheels off the ground and     *)
(* direct ones that go straight, or the wheels turn without commands.      *)
EXTENDS WheelOdometry, ToolController

VARIABLE scenario  \* what this behavior is about

MotorsInit ==
    /\ OdoInit /\ ToolInit
    /\ scenario \in {"commands", "odometry", "tools"}

Commands ==
    /\ scenario = "commands"
    /\ OdoNext
    /\ encoders' = AtZero /\ lastRead' /\ ~copied'.valid /\ ~positionFeedback'
    /\ held'["direct"].angular = 0

Odometry ==
    /\ scenario = "odometry"
    /\ OdoNext /\ ~OdoCommand
    /\ \A w \in Wheels : stored'[w]
    /\ copied'.valid => failures' = 0 /\ turned' = AtZero

Tools ==
    /\ scenario = "tools"
    /\ ToolNext
    /\ UNCHANGED odoVars

MotorsNext ==
    /\ \/ (Commands \/ Odometry) /\ UNCHANGED toolVars
       \/ Tools
    /\ UNCHANGED scenario

MotorsSpec == MotorsInit /\ [][MotorsNext]_<<odoVars, toolVars, scenario>>

(* Backwards beyond the limit, at rest, forwards at the limit. *)
ThreeSpeeds == {-2, 0, 1}
(* The direct stop is fresh for longer than the twist. *)
Windows == [t \in CommandTopics |-> IF t = "direct" THEN 2 ELSE 1]
ForwardOrNot == {0, 1}
(* Eight directions, with three digits of the cosine. *)
Octants == 0 .. 7
OctantCosine == [d \in Octants |->
    CASE d = 0 -> 1000 [] d \in {1, 7} -> 707 [] d \in {2, 6} -> 0
      [] d \in {3, 5} -> -707 [] d = 4 -> -1000]
OctantSine == [d \in Octants |-> OctantCosine[(d + 6) % 8]]
(* Beyond full scale, at rest, and at full scale. *)
ThreeComponents == {-2, 0, 1}
TwoVelocities == {0, 5}
OnlyRest == {0}
=============================================================================
