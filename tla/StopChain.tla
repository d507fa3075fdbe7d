----------------------------- MODULE StopChain -----------------------------
(***************************************************************************)
(* The way of a command to the wheels and the brushes: the safety          *)
(* controller publishes a zero twist, the sweeping controller arbitrates   *)
(* it against the joystick and the navigation, the drive controller holds  *)
(* what was sent and writes the wheels.                                    *)
(*                                                                         *)
(* The three nodes are composed as they are.  A message is handed over     *)
(* within the period in which it was published; who runs first in a        *)
(* period is open, so a stop may need one more period at each node.  One   *)
(* tick is a period of all three timers.                                   *)
(***************************************************************************)
EXTENDS SafetyController

CONSTANTS
    StopWindow,         \* wheel_sources and tool_sources safety_stop.timeout_seconds, in periods
    JoystickWindow,     \* the same of joystick
    NavigationWindow,   \* the same of navigation
    SignalWindow,       \* parameter web_teleop.signal_timeout_seconds
    DriveWindow,        \* command_timeout_sec of the drive controller; 0: always fresh
    PublishIdle,        \* parameter publish_idle_commands
    Commanders,         \* which of joystick and navigation are enabled
    WebTeleop           \* environment: does the web application send modes and scales?

ASSUME ChainWindowsAssumption ==
    /\ {StopWindow, JoystickWindow, NavigationWindow, SignalWindow, DriveWindow} \subseteq Nat
    /\ \A w \in {StopWindow, JoystickWindow, NavigationWindow, SignalWindow, DriveWindow} :
          w < AgeCap
ASSUME ChainSwitchAssumption ==
    /\ Commanders \subseteq {"joystick", "navigation"}
    /\ PublishIdle \in BOOLEAN /\ WebTeleop \in BOOLEAN

VARIABLES
    wheel, tool, mode, wheelScale, toolScale, steady,     \* SweepingController
    arbitrationDue, wheelSent, toolSent,
    lifecycle, held, wheels, updateDue, stored, quiet,    \* DriveController
    settled     \* history: periods through which the latch held and its zero twists were fresh

Used == {"safety_stop"} \cup Commanders
Windows ==
    [safety_stop |-> StopWindow, joystick |-> JoystickWindow, navigation |-> NavigationWindow]
Priorities == [safety_stop |-> 255, joystick |-> 100, navigation |-> 5]

Sweeping == INSTANCE SweepingController
    WITH WheelEnabled <- Used, ToolEnabled <- Used,
         WheelTimeout <- Windows, ToolTimeout <- Windows,
         WheelPriority <- Priorities, ToolPriority <- Priorities,
         SignalTimeout <- SignalWindow, MappingEnabled <- TRUE,
         ToolMotion <- [moving \in BOOLEAN |-> moving]

Driving == INSTANCE DriveController
    WITH Speeds <- {0, 1}, Separation <- 1,
         Timeout <- [t \in {"twist", "direct"} |-> DriveWindow],
         LimitEnabled <- FALSE, MaxLinear <- 0, MaxAngular <- 0, WritesMayFail <- FALSE

sweepVars ==
    <<wheel, tool, mode, wheelScale, toolScale, steady, arbitrationDue, wheelSent, toolSent>>
driveVars == <<lifecycle, held, wheels, updateDue, stored, quiet>>
chainVars == <<vars, sweepVars, driveVars, settled>>

----------------------------------------------------------------------------

(* Mutant: the zero twist goes to the wheels only. *)
DeliverZeroToWheels ==
    IF zeroAge' = 0 THEN Sweeping!HandleWheelStopOnly([topic |-> "safety_stop", moving |-> FALSE])
    ELSE UNCHANGED sweepVars

(* The zero twist of a step of the safety controller reaches the sweeping  *)
(* controller.  (Delivered twice in a period it changes nothing.)          *)
DeliverZero ==
    IF zeroAge' = 0
    THEN Sweeping!HandleSafetyStopCommand([topic |-> "safety_stop", moving |-> FALSE])
    ELSE UNCHANGED sweepVars

SafetyStep ==
    /\ \/ Executor \/ Watchdog
       \/ \E e \in PeerEvents : PeerStop(e)
       \/ \E c \in Clients : ServeClearRequest(c)
    /\ DeliverZero
    /\ UNCHANGED <<driveVars, settled>>

(* The operator and the navigation ask for whatever they like. *)
CommandsArrive ==
    /\ \/ Sweeping!HandleMotionCommand
       \/ WebTeleop /\ Sweeping!HandleWebTeleop
    /\ UNCHANGED <<vars, driveVars, settled>>

(* What the sweeping controller publishes is the twist of the drive        *)
(* controller; when it publishes nothing, nothing comes.                   *)
Deliver ==
    IF wheelSent' = Sweeping!Silence THEN UNCHANGED driveVars
    ELSE Driving!OnWheelCommand(IF wheelSent'.moving THEN 1 ELSE 0, 0)

Arbitrate ==
    /\ Sweeping!PublishSelectedCommands
    /\ Deliver
    /\ UNCHANGED <<vars, settled>>

UpdateWheels ==
    /\ Driving!Update
    /\ UNCHANGED <<vars, sweepVars, settled>>

ActivateDrive ==
    /\ Driving!OnActivate \/ Driving!OnDeactivate
    /\ UNCHANGED <<vars, sweepVars, settled>>

(* The period ends when every node has run its timer. *)
PeriodEnds ==
    /\ Tick /\ Sweeping!Period /\ Driving!Period
    /\ settled' = IF latched /\ zeroAge < StopWindow THEN Older(settled) ELSE 0

ChainInit ==
    /\ Init /\ Sweeping!Init
    /\ lifecycle = "inactive"
    /\ held = [t \in {"twist", "direct"} |-> Driving!Nothing]
    /\ wheels = Driving!AllStop
    /\ updateDue = FALSE
    /\ stored = [w \in {"left", "right"} |-> TRUE]
    /\ quiet = AgeCap
    /\ settled = 0

ChainNext ==
    \/ SafetyStep \/ CommandsArrive \/ Arbitrate \/ UpdateWheels \/ ActivateDrive
    \/ PeriodEnds

ChainSpec == ChainInit /\ [][ChainNext]_chainVars

----------------------------------------------------------------------------
(* Properties. *)

(* The types of the composed state. *)
ChainTypeOK ==
    /\ TypeOK /\ Sweeping!TypeOK /\ Driving!TypeOK
    /\ settled \in 0..AgeCap

WheelsRest == wheels["left"] = 0 /\ wheels["right"] = 0

(* A latched stop has brought the wheels to rest two periods after its     *)
(* zero twists began to come in time, whatever the navigation asks for,    *)
(* and they stay at rest for as long as the twists are fresh.              *)
StopReachesWheels == settled > 1 /\ ~updateDue => WheelsRest

(* The brushes are told to stand one period after the zero twists came.    *)
StopReachesTools == settled > 0 => ~toolSent.moving

(* The dead man's switch of the whole chain: the wheels stand when the     *)
(* last command of every commander is older than its window in the         *)
(* sweeping controller and that of the drive controller together,          *)
(* whichever timer runs first, also where nothing is published without a   *)
(* fresh source (publishSelectedCommands, isFresh, update).  A drive       *)
(* controller that holds a twist for ever (DriveWindow 0) keeps the last   *)
(* one then.                                                               *)
CommandDeadman ==
    /\ DriveWindow > 0 /\ ~updateDue
    /\ \A s \in Commanders : wheel[s].age > Windows[s] + DriveWindow
    => WheelsRest

(* A statement of the documentation that the code does not meet: the zero  *)
(* twists are republished while the stop is latched, so a latched stop     *)
(* never lets the wheels turn once they had the time to come to rest.  The *)
(* reset callback pauses them and the window of the stop source lapses     *)
(* (onPublishTimer, resetLatchedStopService).                              *)
LatchedRests == latched /\ zeroAge = AgeCap => WheelsRest

=============================================================================
