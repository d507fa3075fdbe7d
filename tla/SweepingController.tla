------------------------- MODULE SweepingController -------------------------
(***************************************************************************)
(* amr_sweeper_sweeping_controller: arbitration of the wheel and the tool  *)
(* commands.  Each source keeps its latest command and when it came; the   *)
(* timer forwards the fresh command of the highest priority.               *)
(*                                                                         *)
(* A twist is reduced to the topic that it came from and whether it moves  *)
(* anything.  Time is counted in periods of the timer.                     *)
(***************************************************************************)
EXTENDS Integers, FiniteSets

CONSTANTS
    WheelEnabled,    \* parameters wheel_sources.<source>.enabled, as a set of sources
    ToolEnabled,     \* parameters tool_sources.<source>.enabled
    WheelTimeout,    \* parameters wheel_sources.<source>.timeout_seconds, in periods
    ToolTimeout,     \* parameters tool_sources.<source>.timeout_seconds
    WheelPriority,   \* parameters wheel_sources.<source>.priority
    ToolPriority,    \* parameters tool_sources.<source>.priority
    SignalTimeout,   \* parameter web_teleop.signal_timeout_seconds, in periods
    MappingEnabled,  \* parameter tool_sources.navigation.mapping_enabled
    ToolMotion,      \* does the tool move, for a wheel command that does (TRUE) or does not:
                     \* the gains, offsets and constants of tool_sources.navigation
    PublishIdle,     \* parameter publish_idle_commands
    AgeCap           \* bound: ages stop growing here

Sources == {"safety_stop", "joystick", "navigation"}
Topics == {"safety_stop", "joystick", "navigation", "tool_joystick"}

ASSUME SourcesAssumption ==
    /\ WheelEnabled \subseteq Sources /\ ToolEnabled \subseteq Sources
    /\ WheelPriority \in [Sources -> Int] /\ ToolPriority \in [Sources -> Int]
    /\ MappingEnabled \in BOOLEAN /\ PublishIdle \in BOOLEAN
    /\ ToolMotion \in [BOOLEAN -> BOOLEAN]
ASSUME WindowsAssumption ==
    /\ AgeCap \in Nat /\ SignalTimeout \in Nat /\ SignalTimeout < AgeCap
    /\ WheelTimeout \in [Sources -> Nat] /\ ToolTimeout \in [Sources -> Nat]
    /\ \A s \in Sources : WheelTimeout[s] < AgeCap /\ ToolTimeout[s] < AgeCap

Twist == [topic : Topics, moving : BOOLEAN]
ZeroTwist == [topic |-> "idle", moving |-> FALSE]
Silence == [topic |-> "none", moving |-> FALSE]

VARIABLES
    wheel,           \* wheel_<source>_source_: message seen, its age, the command
    tool,            \* tool_<source>_source_
    mode,            \* web_teleop_control_mode_: message seen, its age, one_stick
    wheelScale,      \* web_teleop_wheel_scale_ is positive
    toolScale,       \* web_teleop_tool_scale_ is positive
    arbitrationDue,  \* the publish timer has expired
    wheelSent,       \* published on wheel_output_topic in this period, or Silence
    toolSent,        \* published on tool_output_topic in this period, or Silence
    steady           \* history: periods since one-stick mode last began or ended

teleopVars == <<mode, wheelScale, toolScale, steady>>
sentVars == <<arbitrationDue, wheelSent, toolSent>>
sweepVars == <<wheel, tool, teleopVars, sentVars>>

----------------------------------------------------------------------------
(* Freshness. *)

Received(command) == [seen |-> TRUE, age |-> 0, command |-> command]

(* Mutant: a source once heard stays in charge. *)
IsActiveOnceHeard(state, enabledSources, timeout, s) ==
    s \in enabledSources /\ state[s].seen

IsActive(state, enabledSources, timeout, s) ==
    s \in enabledSources /\ state[s].seen /\ state[s].age <= timeout[s]

WheelActive(s) == IsActive(wheel, WheelEnabled, WheelTimeout, s)

OneStickActive == mode.seen /\ mode.oneStick /\ mode.age <= SignalTimeout

(* Mutant: the tool joystick competes in every mode. *)
ToolActiveInEveryMode(s) == IsActive(tool, ToolEnabled, ToolTimeout, s)

ToolActive(s) ==
    /\ s = "joystick" => ~OneStickActive
    /\ IsActive(tool, ToolEnabled, ToolTimeout, s)

----------------------------------------------------------------------------
(* Subscriptions.  A disabled source has none. *)

ScaledTwist(command, positive) == [command EXCEPT !.moving = @ /\ positive]

BuildToolNavigationCommand(command) == [command EXCEPT !.moving = ToolMotion[@]]

Follows == "navigation" \in ToolEnabled /\ MappingEnabled

HandleWheelJoystickCommand(command) ==
    /\ "joystick" \in WheelEnabled
    /\ wheel' = [wheel EXCEPT !["joystick"] =
                    Received(IF OneStickActive THEN ScaledTwist(command, wheelScale) ELSE command)]
    /\ tool' = IF OneStickActive /\ Follows
                  THEN [tool EXCEPT !["navigation"] =
                           Received(ScaledTwist(BuildToolNavigationCommand(command), toolScale))]
                  ELSE tool
    /\ UNCHANGED <<teleopVars, sentVars>>

(* Mutant: the navigation gives the tools a command in every mode. *)
HandleWheelNavigationInEveryMode(command) ==
    /\ "navigation" \in WheelEnabled
    /\ wheel' = [wheel EXCEPT !["navigation"] = Received(command)]
    /\ tool' = IF Follows
                  THEN [tool EXCEPT !["navigation"] = Received(BuildToolNavigationCommand(command))]
                  ELSE tool
    /\ UNCHANGED <<teleopVars, sentVars>>

HandleWheelNavigationCommand(command) ==
    /\ "navigation" \in WheelEnabled
    /\ wheel' = [wheel EXCEPT !["navigation"] = Received(command)]
    /\ tool' = IF ~OneStickActive /\ Follows
                  THEN [tool EXCEPT !["navigation"] = Received(BuildToolNavigationCommand(command))]
                  ELSE tool
    /\ UNCHANGED <<teleopVars, sentVars>>

HandleToolJoystickCommand(command) ==
    /\ "joystick" \in ToolEnabled
    /\ tool' = [tool EXCEPT !["joystick"] = Received(command)]
    /\ UNCHANGED <<wheel, teleopVars, sentVars>>

(* Mutant: the stop reaches the wheels only. *)
HandleWheelStopOnly(command) ==
    /\ wheel' = [wheel EXCEPT !["safety_stop"] = Received(command)]
    /\ UNCHANGED <<tool, teleopVars, sentVars>>

HandleSafetyStopCommand(command) ==
    /\ "safety_stop" \in WheelEnabled \cup ToolEnabled
    /\ wheel' = [wheel EXCEPT !["safety_stop"] = Received(command)]
    /\ tool' = [tool EXCEPT !["safety_stop"] = Received(command)]
    /\ UNCHANGED <<teleopVars, sentVars>>

(* The history of who leads the brushes, for a step that changes the mode  *)
(* or lets it time out.                                                    *)
SteadyFrom(periods) == steady' = IF OneStickActive' <=> OneStickActive THEN periods ELSE 0

HandleControlMode(oneStick) ==
    /\ mode' = [seen |-> TRUE, age |-> 0, oneStick |-> oneStick]
    /\ SteadyFrom(steady)
    /\ UNCHANGED <<wheel, tool, wheelScale, toolScale, sentVars>>

HandleWheelScale(positive) ==
    /\ wheelScale' = positive
    /\ UNCHANGED <<wheel, tool, mode, toolScale, steady, sentVars>>

HandleToolScale(positive) ==
    /\ toolScale' = positive
    /\ UNCHANGED <<wheel, tool, mode, wheelScale, steady, sentVars>>

----------------------------------------------------------------------------
(* The timer. *)

(* Mutant: the first fresh source wins. *)
AnyActive(active, priority) == active

(* The fresh sources that no fresh source outranks.  The code iterates an  *)
(* unordered map: which of two equal priorities wins is not specified.     *)
Best(active, priority) == {s \in active : \A t \in active : priority[t] <= priority[s]}

(* What the timer may publish for one output. *)
Selected(active, state, priority) ==
    IF active = {} THEN IF PublishIdle THEN {ZeroTwist} ELSE {Silence}
    ELSE {state[s].command : s \in Best(active, priority)}

PublishSelectedCommands ==
    /\ arbitrationDue
    /\ arbitrationDue' = FALSE
    /\ wheelSent' \in Selected({s \in Sources : WheelActive(s)}, wheel, WheelPriority)
    /\ toolSent' \in Selected({s \in Sources : ToolActive(s)}, tool, ToolPriority)
    /\ UNCHANGED <<wheel, tool, teleopVars>>

(* Mutant: an unbounded clock. *)
OlderUnbounded(age) == age + 1

Older(age) == IF age < AgeCap THEN age + 1 ELSE age

Aged(state) == [s \in Sources |-> [state[s] EXCEPT !.age = Older(@)]]

(* The next period begins when this one's timer has run. *)
Period ==
    /\ ~arbitrationDue
    /\ arbitrationDue' = TRUE
    /\ wheelSent' = Silence /\ toolSent' = Silence
    /\ wheel' = Aged(wheel)
    /\ tool' = Aged(tool)
    /\ mode' = [mode EXCEPT !.age = Older(@)]
    /\ SteadyFrom(Older(steady))
    /\ UNCHANGED <<wheelScale, toolScale>>

----------------------------------------------------------------------------

Unheard == [seen |-> FALSE, age |-> AgeCap, command |-> ZeroTwist]

Init ==
    /\ wheel = [s \in Sources |-> Unheard]
    /\ tool = [s \in Sources |-> Unheard]
    /\ mode = [seen |-> FALSE, age |-> AgeCap, oneStick |-> FALSE]
    /\ wheelScale = TRUE
    /\ toolScale = TRUE
    /\ steady = AgeCap
    /\ arbitrationDue = FALSE
    /\ wheelSent = Silence
    /\ toolSent = Silence

HandleMotionCommand ==
    \E moving \in BOOLEAN :
        \/ HandleWheelJoystickCommand([topic |-> "joystick", moving |-> moving])
        \/ HandleWheelNavigationCommand([topic |-> "navigation", moving |-> moving])
        \/ HandleToolJoystickCommand([topic |-> "tool_joystick", moving |-> moving])

HandleWebTeleop ==
    \/ \E oneStick \in BOOLEAN : HandleControlMode(oneStick)
    \/ \E positive \in BOOLEAN : HandleWheelScale(positive) \/ HandleToolScale(positive)

Handle ==
    \/ HandleMotionCommand \/ HandleWebTeleop
    \/ HandleSafetyStopCommand([topic |-> "safety_stop", moving |-> FALSE])

Next == Handle \/ PublishSelectedCommands \/ Period

Spec == Init /\ [][Next]_sweepVars

----------------------------------------------------------------------------
(* Properties. *)

Held == [seen : BOOLEAN, age : 0..AgeCap, command : Twist \cup {ZeroTwist}]

(* The type of every variable of the node. *)
TypeOK ==
    /\ wheel \in [Sources -> Held]
    /\ tool \in [Sources -> Held]
    /\ mode \in [seen : BOOLEAN, age : 0..AgeCap, oneStick : BOOLEAN]
    /\ wheelScale \in BOOLEAN /\ toolScale \in BOOLEAN
    /\ steady \in 0..AgeCap
    /\ arbitrationDue \in BOOLEAN
    /\ wheelSent \in Twist \cup {ZeroTwist, Silence}
    /\ toolSent \in Twist \cup {ZeroTwist, Silence}

(* The configuration the documentation asks for: the stop comes first. *)
SafetyOutranks ==
    /\ "safety_stop" \in WheelEnabled \cap ToolEnabled
    /\ \A s \in Sources \ {"safety_stop"} :
          /\ WheelPriority[s] < WheelPriority["safety_stop"]
          /\ ToolPriority[s] < ToolPriority["safety_stop"]

(* While a stop of an earlier period is fresh, neither the wheels nor the  *)
(* tools get a command that moves them (selectWheelCommand,                *)
(* selectToolCommand, in every teleop mode).                               *)
SafetyWins ==
    /\ wheel["safety_stop"].age \in 1..WheelTimeout["safety_stop"] => ~wheelSent.moving
    /\ tool["safety_stop"].age \in 1..ToolTimeout["safety_stop"] => ~toolSent.moving

(* With equal windows, a stop holds the wheels if and only if it holds the *)
(* tools (handleSafetyStopCommand feeds both from one message).            *)
StoppedTogether == wheelSent.topic = "safety_stop" <=> toolSent.topic = "safety_stop"

(* The tool joystick has no say while one-stick mode is on.                *)
OneStickSilencesTools ==
    toolSent.topic = "tool_joystick" /\ mode.age > 0 => ~OneStickActive

(* The brushes follow one leader.  A freshness window after one-stick mode *)
(* has begun, and for as long as its signal is renewed in time, they no    *)
(* longer follow the navigation; a window after it has ended, by a message *)
(* or by the loss of its signal, they no longer follow the drive stick     *)
(* (handleWheelJoystickCommand, handleWheelNavigationCommand).             *)
OneLeader ==
    steady > ToolTimeout["navigation"] =>
        /\ toolSent.topic = "navigation" => ~OneStickActive
        /\ toolSent.topic = "joystick" => OneStickActive

(* "publishes the configured constant tool Twist whenever a fresh          *)
(* autonomous navigation/cmd_vel command is active", unless a source of    *)
(* higher priority is: the wheels are driven by the navigation, so the     *)
(* tools turn.                                                             *)
ConstantTwistWhenNavigating ==
    (wheelSent.topic = "navigation" /\ wheel["navigation"].age > 0
        /\ ~ToolActive("safety_stop") /\ ~ToolActive("joystick"))
            => toolSent.moving

============================================================================
