--------------------------- MODULE ToolController ---------------------------
(***************************************************************************)
(* amr_sweeper_tool_controller: the ros2_control plugin that turns tool    *)
(* twists, and direct brush velocities, into the velocities of the two     *)
(* brushes.                                                                *)
(*                                                                         *)
(* Threads, lifecycle and held commands are those of DriveController; the  *)
(* two topics carry different messages.  A velocity is an integer: a twist *)
(* component is in fractions 1/Unit of full scale, and so is a brush       *)
(* velocity.                                                               *)
(***************************************************************************)
EXTENDS Integers

CONSTANTS
    Components,          \* components of a twist that may be received
    Velocities,          \* velocities that a direct command may ask for
    Unit,                \* the value 1.0 of a twist component
    MaxToolSpeed,        \* max_tool_speed_rad_s_: brush velocity at a component of one
    TwistTimeout,        \* command_timeout_sec_ in periods; 0: always fresh
    DirectTimeout,       \* direct_command_timeout_sec_
    ToolWritesMayFail,   \* may a command interface refuse a value?
    ToolAgeCap           \* bound: ages stop growing here

Brushes == {"left", "right"}

ASSUME ToolInputsAssumption ==
    /\ Components \subseteq Int /\ 0 \in Components
    /\ Velocities \subseteq Int /\ 0 \in Velocities
    /\ Unit \in Nat \ {0} /\ MaxToolSpeed \in Nat /\ ToolWritesMayFail \in BOOLEAN
ASSUME ToolWindowsAssumption ==
    /\ ToolAgeCap \in Nat /\ TwistTimeout \in Nat /\ DirectTimeout \in Nat
    /\ TwistTimeout < ToolAgeCap /\ DirectTimeout < ToolAgeCap

VARIABLES
    toolLifecycle,   \* state of the controller in the controller manager
    twist,           \* latest_twist_command_ with its age
    direct,          \* latest_direct_command_ with its age
    brushes,         \* the values of the command interfaces
    toolUpdateDue,   \* the loop has yet to call update in this period
    toolStored,      \* history: the last write to this brush was accepted
    toolQuiet        \* history: periods since a moving command was received

commandVars == <<twist, direct>>
toolVars == <<toolLifecycle, commandVars, brushes, toolUpdateDue, toolStored, toolQuiet>>

----------------------------------------------------------------------------
(* Commands. *)

NoTwist == [valid |-> FALSE, age |-> ToolAgeCap, linear |-> 0, angular |-> 0]
NoDirect == [valid |-> FALSE, age |-> ToolAgeCap, left |-> 0, right |-> 0]

(* Mutant: the direct command survives. *)
ResetTwistOnly == twist' = NoTwist /\ direct' = direct

ResetToolCommandState == twist' = NoTwist /\ direct' = NoDirect

IsToolFresh(command, timeout) == timeout = 0 \/ command.age <= timeout

(* Mutant: only forward components saturate. *)
ClampUnitForward(value) == IF value > Unit THEN Unit ELSE value

ClampUnit(value) == IF value < -Unit THEN -Unit ELSE IF value > Unit THEN Unit ELSE value

FromTwist ==
    LET linear == ClampUnit(twist.linear)
        angular == ClampUnit(twist.angular)
    IN  [b \in Brushes |-> IF b = "left" THEN (linear - angular) * MaxToolSpeed
                                         ELSE (linear + angular) * MaxToolSpeed]

BrushesStop == [b \in Brushes |-> 0]

(* Mutant: direct commands step in when the twists are stale. *)
TargetTwistFirst ==
    IF twist.valid /\ IsToolFresh(twist, TwistTimeout) THEN FromTwist
    ELSE IF direct.valid /\ IsToolFresh(direct, DirectTimeout)
    THEN [b \in Brushes |-> direct[b]]
    ELSE BrushesStop

(* A direct command is not clamped. *)
Target ==
    IF direct.valid /\ IsToolFresh(direct, DirectTimeout) THEN [b \in Brushes |-> direct[b]]
    ELSE IF twist.valid /\ IsToolFresh(twist, TwistTimeout) THEN FromTwist
    ELSE BrushesStop

SetHardwareCommand(value) ==
    \E accepted \in [Brushes -> BOOLEAN] :
        /\ ~ToolWritesMayFail => \A b \in Brushes : accepted[b]
        /\ brushes' = [b \in Brushes |-> IF accepted[b] THEN value[b] ELSE brushes[b]]
        /\ toolStored' = accepted

----------------------------------------------------------------------------
(* Lifecycle. *)

OnToolConfigure ==
    /\ toolLifecycle = "unconfigured"
    /\ toolLifecycle' = "inactive"
    /\ ResetToolCommandState
    /\ UNCHANGED <<brushes, toolUpdateDue, toolStored, toolQuiet>>

(* The loop may update the controller in the cycle that activates it.      *)
OnToolActivate ==
    /\ toolLifecycle = "inactive"
    /\ toolLifecycle' = "active"
    /\ ResetToolCommandState
    /\ SetHardwareCommand(BrushesStop)
    /\ toolUpdateDue' \in BOOLEAN
    /\ toolQuiet' = ToolAgeCap

OnToolDeactivate ==
    /\ toolLifecycle = "active"
    /\ toolLifecycle' = "inactive"
    /\ SetHardwareCommand(BrushesStop)
    /\ toolUpdateDue' = FALSE
    /\ UNCHANGED <<commandVars, toolQuiet>>

----------------------------------------------------------------------------
(* Subscriptions: they exist from on_configure on, active or not. *)

Heard(moving) == toolQuiet' = IF moving THEN 0 ELSE toolQuiet

OnToolCommand(linear, angular) ==
    /\ toolLifecycle # "unconfigured"
    /\ twist' = [valid |-> TRUE, age |-> 0, linear |-> linear, angular |-> angular]
    /\ Heard(linear # 0 \/ angular # 0)
    /\ UNCHANGED <<toolLifecycle, direct, brushes, toolUpdateDue, toolStored>>

(* A message of another size than two is dropped: it changes nothing.      *)
OnToolDirectCommand(left, right) ==
    /\ toolLifecycle # "unconfigured"
    /\ direct' = [valid |-> TRUE, age |-> 0, left |-> left, right |-> right]
    /\ Heard(left # 0 \/ right # 0)
    /\ UNCHANGED <<toolLifecycle, twist, brushes, toolUpdateDue, toolStored>>

----------------------------------------------------------------------------
(* The loop of the controller manager. *)

ToolUpdate ==
    /\ toolUpdateDue
    /\ toolUpdateDue' = FALSE
    /\ SetHardwareCommand(Target)
    /\ UNCHANGED <<toolLifecycle, commandVars, toolQuiet>>

(* Mutant: an unbounded clock. *)
ToolOlderUnbounded(age) == age + 1

ToolOlder(age) == IF age < ToolAgeCap THEN age + 1 ELSE age

(* The next period begins when an active controller has been updated.      *)
ToolPeriod ==
    /\ ~toolUpdateDue
    /\ toolUpdateDue' = (toolLifecycle = "active")
    /\ twist' = [twist EXCEPT !.age = ToolOlder(@)]
    /\ direct' = [direct EXCEPT !.age = ToolOlder(@)]
    /\ toolQuiet' = ToolOlder(toolQuiet)
    /\ UNCHANGED <<toolLifecycle, brushes, toolStored>>

----------------------------------------------------------------------------

ToolInit ==
    /\ toolLifecycle = "unconfigured"
    /\ twist = NoTwist
    /\ direct = NoDirect
    /\ brushes = BrushesStop
    /\ toolUpdateDue = FALSE
    /\ toolStored = [b \in Brushes |-> TRUE]
    /\ toolQuiet = ToolAgeCap

ToolNext ==
    \/ OnToolConfigure \/ OnToolActivate \/ OnToolDeactivate
    \/ \E linear, angular \in Components : OnToolCommand(linear, angular)
    \/ \E left, right \in Velocities : OnToolDirectCommand(left, right)
    \/ ToolUpdate
    \/ ToolPeriod

ToolSpec == ToolInit /\ [][ToolNext]_toolVars

----------------------------------------------------------------------------
(* Properties. *)

(* The type of every variable of the controller. *)
ToolTypeOK ==
    /\ toolLifecycle \in {"unconfigured", "inactive", "active"}
    /\ twist \in [valid : BOOLEAN, age : 0..ToolAgeCap, linear : Components, angular : Components]
    /\ direct \in [valid : BOOLEAN, age : 0..ToolAgeCap, left : Velocities, right : Velocities]
    /\ brushes \in [Brushes -> Int]
    /\ toolUpdateDue \in BOOLEAN
    /\ toolStored \in [Brushes -> BOOLEAN]
    /\ toolQuiet \in 0..ToolAgeCap

(* A brush whose interface accepts values stands when the controller is    *)
(* not active, and when no moving command of either topic came since the   *)
(* activation or within its window (update, isFresh, resetCommandState).   *)
ToolDeadman ==
    \A b \in Brushes :
        /\ toolStored[b] /\ ~toolUpdateDue
        /\ \/ toolLifecycle # "active"
           \/ /\ TwistTimeout > 0 /\ TwistTimeout < toolQuiet
              /\ DirectTimeout > 0 /\ DirectTimeout < toolQuiet
        => brushes[b] = 0

(* A direct stop of an earlier period that is still fresh holds the        *)
(* brushes, whatever twists arrive (update).                               *)
ToolDirectStopHolds ==
    \A b \in Brushes :
        /\ toolLifecycle = "active" /\ toolStored[b] /\ ~toolUpdateDue
        /\ direct.valid /\ direct.age \in 1..DirectTimeout
        /\ direct.left = 0 /\ direct.right = 0
        => brushes[b] = 0

(* The true ceiling of the brushes: a brush turns at most at twice the     *)
(* maximum, which both components of a twist together can reach, or at a   *)
(* velocity that a direct command asked for (update).                      *)
BrushCeiling ==
    LET bound == 2 * (Unit * MaxToolSpeed)
    IN  \A b \in Brushes : brushes[b] \in -bound..bound \/ brushes[b] \in Velocities

(* "Maximum brush motor speed commanded when tool twist inputs saturate":  *)
(* without direct commands no brush exceeds it.                            *)
SaturatesAtMaximum ==
    \A b \in Brushes : brushes[b] \in -(MaxToolSpeed * Unit)..(MaxToolSpeed * Unit)

=============================================================================
