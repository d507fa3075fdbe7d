-------------------------- MODULE DriveController --------------------------
(***************************************************************************)
(* amr_sweeper_drive_controller: the ros2_control plugin that turns chassis *)
(* commands into wheel velocities.                                         *)
(*                                                                         *)
(* The lifecycle callbacks and the periodic update run in the loop of the  *)
(* controller manager, the two subscriptions in another thread; a mutex    *)
(* makes each access to the held commands one step.  Velocities are        *)
(* integers: a wheel value is twice the speed of its rim.  The odometry is *)
(* in WheelOdometry.                                                       *)
(***************************************************************************)
EXTENDS Integers

CONSTANTS
    Speeds,          \* components of a command that may be received
    Separation,      \* wheel_separation_ * wheel_separation_multiplier_
    Timeout,         \* command_timeout_sec_ in periods, by topic; 0: always fresh
    LimitEnabled,    \* parameter speed_limit_enabled
    MaxLinear,       \* parameter max_linear_velocity; 0: no limit
    MaxAngular,      \* parameter max_angular_velocity; 0: no limit
    WritesMayFail,   \* may a command interface refuse a value?
    AgeCap           \* bound: ages stop growing here

Wheels == {"left", "right"}
CommandTopics == {"twist", "direct"}

ASSUME SpeedsAssumption == Speeds \subseteq Int /\ 0 \in Speeds
ASSUME GeometryAssumption ==
    Separation \in Nat \ {0} /\ MaxLinear \in Nat /\ MaxAngular \in Nat
ASSUME SwitchAssumption == LimitEnabled \in BOOLEAN /\ WritesMayFail \in BOOLEAN
ASSUME TimesAssumption ==
    /\ AgeCap \in Nat /\ Timeout \in [CommandTopics -> Nat]
    /\ \A t \in CommandTopics : Timeout[t] < AgeCap

VARIABLES
    lifecycle,       \* state of the controller in the controller manager
    held,            \* latest_twist_command_, latest_direct_command_, with their age
    wheels,          \* the values of the command interfaces
    updateDue,       \* the loop has yet to call update in this period
    stored,          \* history: the last write to this wheel was accepted
    quiet            \* history: periods since a moving command was received

driveVars == <<lifecycle, held, wheels, updateDue, stored, quiet>>

----------------------------------------------------------------------------
(* Commands. *)

Nothing == [valid |-> FALSE, age |-> AgeCap, linear |-> 0, angular |-> 0]

ResetCommandState == held' = [t \in CommandTopics |-> Nothing]

IsFresh(topic) == Timeout[topic] = 0 \/ held[topic].age <= Timeout[topic]

Usable(topic) == held[topic].valid /\ IsFresh(topic)

(* Mutant: the newer of the two commands is used. *)
InForceNewest ==
    IF Usable("direct") /\ (Usable("twist") => held["direct"].age < held["twist"].age)
    THEN held["direct"]
    ELSE IF Usable("twist") THEN held["twist"] ELSE Nothing

(* The command that update uses: direct before twist, or standing still.   *)
InForce == IF Usable("direct") THEN held["direct"]
           ELSE IF Usable("twist") THEN held["twist"]
           ELSE Nothing

ClampSymmetric(value, limit) ==
    IF limit = 0 THEN value
    ELSE IF value < -limit THEN -limit
    ELSE IF value > limit THEN limit
    ELSE value

Limited(value, limit) == IF LimitEnabled THEN ClampSymmetric(value, limit) ELSE value

(* Mutant: the limit is applied to the linear part only. *)
WheelVelocityLinearLimit(command, wheel) ==
    LET turn == command.angular * Separation
        straight == 2 * Limited(command.linear, MaxLinear)
    IN  IF wheel = "left" THEN straight - turn ELSE straight + turn

WheelVelocity(command, wheel) ==
    LET turn == Limited(command.angular, MaxAngular) * Separation
        straight == 2 * Limited(command.linear, MaxLinear)
    IN  IF wheel = "left" THEN straight - turn ELSE straight + turn

(* set_value: the interface takes the value, or refuses it and keeps its own. *)
Write(value) ==
    \E accepted \in [Wheels -> BOOLEAN] :
        /\ ~WritesMayFail => \A w \in Wheels : accepted[w]
        /\ wheels' = [w \in Wheels |-> IF accepted[w] THEN value[w] ELSE wheels[w]]
        /\ stored' = accepted

AllStop == [w \in Wheels |-> 0]

----------------------------------------------------------------------------
(* Lifecycle. *)

OnConfigure ==
    /\ lifecycle = "unconfigured"
    /\ lifecycle' = "inactive"
    /\ ResetCommandState
    /\ UNCHANGED <<wheels, updateDue, stored, quiet>>

(* Mutant: commands from before the activation stay. *)
OnActivateKeepCommands ==
    /\ lifecycle = "inactive"
    /\ lifecycle' = "active"
    /\ Write(AllStop)
    /\ updateDue' \in BOOLEAN
    /\ quiet' = AgeCap
    /\ UNCHANGED held

(* The loop may update the controller in the cycle that activates it.      *)
OnActivate ==
    /\ lifecycle = "inactive"
    /\ lifecycle' = "active"
    /\ ResetCommandState
    /\ Write(AllStop)
    /\ updateDue' \in BOOLEAN
    /\ quiet' = AgeCap

OnDeactivate ==
    /\ lifecycle = "active"
    /\ lifecycle' = "inactive"
    /\ Write(AllStop)
    /\ updateDue' = FALSE
    /\ UNCHANGED <<held, quiet>>

----------------------------------------------------------------------------
(* Subscriptions: they exist from on_configure on, active or not. *)

OnCommand(topic, linear, angular) ==
    /\ lifecycle # "unconfigured"
    /\ held' = [held EXCEPT ![topic] =
                   [valid |-> TRUE, age |-> 0, linear |-> linear, angular |-> angular]]
    /\ quiet' = IF linear = 0 /\ angular = 0 THEN quiet ELSE 0
    /\ UNCHANGED <<lifecycle, wheels, updateDue, stored>>

OnWheelCommand(linear, angular) == OnCommand("twist", linear, angular)

OnDirectCommand(linear, angular) == OnCommand("direct", linear, angular)

----------------------------------------------------------------------------
(* The loop of the controller manager. *)

Update ==
    /\ updateDue
    /\ updateDue' = FALSE
    /\ Write([w \in Wheels |-> WheelVelocity(InForce, w)])
    /\ UNCHANGED <<lifecycle, held, quiet>>

(* Mutant: an unbounded clock. *)
OlderUnbounded(age) == age + 1

Older(age) == IF age < AgeCap THEN age + 1 ELSE age

(* The next period begins when an active controller has been updated.      *)
Period ==
    /\ ~updateDue
    /\ updateDue' = (lifecycle = "active")
    /\ held' = [t \in CommandTopics |-> [held[t] EXCEPT !.age = Older(@)]]
    /\ quiet' = Older(quiet)
    /\ UNCHANGED <<lifecycle, wheels, stored>>

----------------------------------------------------------------------------

Init ==
    /\ lifecycle = "unconfigured"
    /\ held = [t \in CommandTopics |-> Nothing]
    /\ wheels = AllStop
    /\ updateDue = FALSE
    /\ stored = [w \in Wheels |-> TRUE]
    /\ quiet = AgeCap

Next ==
    \/ OnConfigure \/ OnActivate \/ OnDeactivate
    \/ \E linear, angular \in Speeds :
          OnWheelCommand(linear, angular) \/ OnDirectCommand(linear, angular)
    \/ Update
    \/ Period

Spec == Init /\ [][Next]_driveVars

----------------------------------------------------------------------------
(* Properties. *)

(* The type of every variable of the controller. *)
TypeOK ==
    /\ lifecycle \in {"unconfigured", "inactive", "active"}
    /\ held \in [CommandTopics -> [valid : BOOLEAN, age : 0..AgeCap,
                                   linear : Speeds, angular : Speeds]]
    /\ wheels \in [Wheels -> Int]
    /\ updateDue \in BOOLEAN
    /\ stored \in [Wheels -> BOOLEAN]
    /\ quiet \in 0..AgeCap

(* A wheel whose interface accepts values stands when the controller is    *)
(* not active, and when no moving command of either topic came since the   *)
(* activation or within its window (update, isFresh, resetCommandState).   *)
Deadman ==
    \A w \in Wheels :
        /\ stored[w] /\ ~updateDue
        /\ \/ lifecycle # "active"
           \/ \A t \in CommandTopics : Timeout[t] > 0 /\ Timeout[t] < quiet
        => wheels[w] = 0

(* A direct stop of an earlier period that is still fresh holds the        *)
(* wheels, whatever twists arrive (update).                                *)
DirectStopHolds ==
    \A w \in Wheels :
        /\ lifecycle = "active" /\ stored[w] /\ ~updateDue
        /\ held["direct"].valid /\ held["direct"].age \in 1..Timeout["direct"]
        /\ held["direct"].linear = 0 /\ held["direct"].angular = 0
        => wheels[w] = 0

(* No command, of whatever topic, drives a wheel above the ceiling of the  *)
(* chassis (update, clampSymmetric).                                       *)
ChassisCeiling ==
    LET bound == 2 * MaxLinear + MaxAngular * Separation
    IN  LimitEnabled /\ MaxLinear > 0 /\ MaxAngular > 0
            => \A w \in Wheels : wheels[w] \in -bound..bound

=============================================================================
