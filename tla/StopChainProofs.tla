-------------------------- MODULE StopChainProofs --------------------------
(***************************************************************************)
(* Theorems about StopChain: the composition implements the components it  *)
(* is made of, and a safety stop reaches the wheels and the brushes, for   *)
(* every freshness window and every configuration of the safety controller.*)
(*                                                                         *)
(* The lemmas of the components are used as they are: those of the safety  *)
(* controller through EXTENDS, those of the sweeping and of the drive      *)
(* controller through instances with the parameters that StopChain gives   *)
(* them.                                                                   *)
(***************************************************************************)
EXTENDS StopChain, SafetyControllerProofs

Arbiter == INSTANCE SweepingProofs
    WITH WheelEnabled <- Used, ToolEnabled <- Used,
         WheelTimeout <- Windows, ToolTimeout <- Windows,
         WheelPriority <- Priorities, ToolPriority <- Priorities,
         SignalTimeout <- SignalWindow, MappingEnabled <- TRUE,
         ToolMotion <- [moving \in BOOLEAN |-> moving]

Drive == INSTANCE DriveControllerProofs
    WITH Speeds <- {0, 1}, Separation <- 1,
         Timeout <- [t \in {"twist", "direct"} |-> DriveWindow],
         LimitEnabled <- FALSE, MaxLinear <- 0, MaxAngular <- 0, WritesMayFail <- FALSE

(* The windows and priorities of the chain are parameters of the sweeping  *)
(* controller.                                                             *)
LEMMA ArbiterParameters == Arbiter!SourcesAssumption /\ Arbiter!WindowsAssumption
  BY ChainWindowsAssumption, ChainSwitchAssumption, TimesAssumption
     DEF Used, Windows, Priorities, Arbiter!SourcesAssumption, Arbiter!WindowsAssumption,
         Arbiter!Sources

(* The window of the chain is a timeout of the drive controller.           *)
LEMMA DriveParameters ==
    /\ Drive!SpeedsAssumption /\ Drive!GeometryAssumption /\ Drive!SwitchAssumption
    /\ Drive!TimesAssumption
  BY ChainWindowsAssumption, TimesAssumption
     DEF Drive!SpeedsAssumption, Drive!GeometryAssumption, Drive!SwitchAssumption,
         Drive!TimesAssumption, Drive!CommandTopics

(* Sweeping and Arbiter are the same controller.                           *)
LEMMA ArbiterActions ==
    /\ Sweeping!Next <=> Arbiter!Next
    /\ Sweeping!PublishSelectedCommands <=> Arbiter!PublishSelectedCommands
    /\ UNCHANGED Sweeping!sweepVars <=> UNCHANGED Arbiter!sweepVars
<1> USE DEF Sweeping!Sources, Arbiter!Sources, Sweeping!Silence, Arbiter!Silence,
            Sweeping!ZeroTwist, Arbiter!ZeroTwist, Sweeping!Received, Arbiter!Received,
            Sweeping!Follows, Arbiter!Follows, Sweeping!IsActive, Arbiter!IsActive,
            Sweeping!OneStickActive, Arbiter!OneStickActive,
            Sweeping!ScaledTwist, Arbiter!ScaledTwist,
            Sweeping!BuildToolNavigationCommand, Arbiter!BuildToolNavigationCommand,
            Sweeping!teleopVars, Arbiter!teleopVars, Sweeping!sentVars, Arbiter!sentVars,
            Sweeping!SteadyFrom, Arbiter!SteadyFrom
<1>1. Sweeping!PublishSelectedCommands <=> Arbiter!PublishSelectedCommands
  BY DEF Sweeping!PublishSelectedCommands, Arbiter!PublishSelectedCommands,
     Sweeping!Selected, Arbiter!Selected, Sweeping!Best, Arbiter!Best,
     Sweeping!WheelActive, Arbiter!WheelActive, Sweeping!ToolActive, Arbiter!ToolActive
<1>2. Sweeping!Period <=> Arbiter!Period
  BY DEF Sweeping!Period, Arbiter!Period, Sweeping!Aged, Arbiter!Aged,
     Sweeping!Older, Arbiter!Older
<1>3. Sweeping!Handle <=> Arbiter!Handle
  BY DEF Sweeping!Handle, Arbiter!Handle,
     Sweeping!HandleMotionCommand, Arbiter!HandleMotionCommand,
     Sweeping!HandleWebTeleop, Arbiter!HandleWebTeleop,
     Sweeping!HandleSafetyStopCommand, Arbiter!HandleSafetyStopCommand,
     Sweeping!HandleWheelNavigationCommand, Arbiter!HandleWheelNavigationCommand,
     Sweeping!HandleWheelJoystickCommand, Arbiter!HandleWheelJoystickCommand,
     Sweeping!HandleToolJoystickCommand, Arbiter!HandleToolJoystickCommand,
     Sweeping!HandleControlMode, Arbiter!HandleControlMode,
     Sweeping!HandleWheelScale, Arbiter!HandleWheelScale,
     Sweeping!HandleToolScale, Arbiter!HandleToolScale
<1> QED BY <1>1, <1>2, <1>3 DEF Sweeping!Next, Arbiter!Next, Sweeping!sweepVars, Arbiter!sweepVars

(* Driving and Drive are the same controller.                              *)
LEMMA DriveActions ==
    /\ Driving!Next <=> Drive!Next
    /\ Driving!Update <=> Drive!Update
    /\ Driving!OnActivate <=> Drive!OnActivate
    /\ Driving!OnDeactivate <=> Drive!OnDeactivate
    /\ UNCHANGED Driving!driveVars <=> UNCHANGED Drive!driveVars
<1> USE DEF Driving!Wheels, Drive!Wheels, Driving!CommandTopics, Drive!CommandTopics,
            Driving!Write, Drive!Write, Driving!Nothing, Drive!Nothing,
            Driving!AllStop, Drive!AllStop, Driving!ResetCommandState, Drive!ResetCommandState
<1>1. Driving!Update <=> Drive!Update
  BY DEF Driving!Update, Drive!Update, Driving!WheelVelocity, Drive!WheelVelocity,
     Driving!Limited, Drive!Limited, Driving!ClampSymmetric, Drive!ClampSymmetric,
     Driving!InForce, Drive!InForce, Driving!Usable, Drive!Usable,
     Driving!IsFresh, Drive!IsFresh
<1>2. Driving!Period <=> Drive!Period
  BY DEF Driving!Period, Drive!Period, Driving!Older, Drive!Older
<1>3. /\ Driving!OnActivate <=> Drive!OnActivate
      /\ Driving!OnDeactivate <=> Drive!OnDeactivate
      /\ Driving!OnConfigure <=> Drive!OnConfigure
  BY DEF Driving!OnActivate, Drive!OnActivate, Driving!OnDeactivate, Drive!OnDeactivate,
     Driving!OnConfigure, Drive!OnConfigure
<1>4. \A l, a : /\ Driving!OnWheelCommand(l, a) <=> Drive!OnWheelCommand(l, a)
                /\ Driving!OnDirectCommand(l, a) <=> Drive!OnDirectCommand(l, a)
  BY DEF Driving!OnWheelCommand, Drive!OnWheelCommand, Driving!OnDirectCommand,
     Drive!OnDirectCommand, Driving!OnCommand, Drive!OnCommand
<1> QED
  BY <1>1, <1>2, <1>3, <1>4 DEF Driving!Next, Drive!Next, Driving!driveVars, Drive!driveVars

----------------------------------------------------------------------------
(* What the composition does, component by component.                      *)

(* A step of the safety controller in the chain is one of its own steps.   *)
LEMMA SafetyStepBelow == SafetyStep => Next
  BY DEF SafetyStep, Next, Environment

(* Every step of the chain is, for each component, a step of its own or    *)
(* leaves it unchanged.                                                    *)
LEMMA ChainStepBelow ==
    [ChainNext]_chainVars =>
        /\ [Next]_vars
        /\ [Sweeping!Next]_(Sweeping!sweepVars)
        /\ [Driving!Next]_(Driving!driveVars)
<1> SUFFICES ASSUME [ChainNext]_chainVars
             PROVE  /\ [Next]_vars
                    /\ [Sweeping!Next]_(Sweeping!sweepVars)
                    /\ [Driving!Next]_(Driving!driveVars)
  OBVIOUS
<1>0. /\ UNCHANGED sweepVars => UNCHANGED Sweeping!sweepVars
      /\ UNCHANGED driveVars => UNCHANGED Driving!driveVars
  BY DEF sweepVars, driveVars, Sweeping!sweepVars, Sweeping!teleopVars, Sweeping!sentVars,
         Driving!driveVars
<1>1. CASE SafetyStep
  BY <1>0, <1>1, SafetyStepBelow DEF SafetyStep, DeliverZero, Sweeping!Next, Sweeping!Handle
<1>2. CASE CommandsArrive
  BY <1>0, <1>2 DEF CommandsArrive, Sweeping!Next, Sweeping!Handle
<1>3. CASE Arbitrate
  BY <1>0, <1>3 DEF Arbitrate, Deliver, Sweeping!Next, Driving!Next
<1>4. CASE UpdateWheels
  BY <1>0, <1>4 DEF UpdateWheels, Driving!Next
<1>5. CASE ActivateDrive
  BY <1>0, <1>5 DEF ActivateDrive, Driving!Next
<1>6. CASE PeriodEnds
  BY <1>6 DEF PeriodEnds, Next, Environment, Sweeping!Next, Driving!Next
<1>7. CASE UNCHANGED chainVars
  BY <1>0, <1>7 DEF chainVars
<1> QED BY <1>1, <1>2, <1>3, <1>4, <1>5, <1>6, <1>7 DEF ChainNext

(* The chain implements the safety controller, so that all its theorems    *)
(* hold in it, whatever the rest of the robot does.                        *)
THEOREM ChainImplementsSafety == ChainSpec => Spec
<1>1. ChainInit => Init
  BY DEF ChainInit
<1> QED BY <1>1, ChainStepBelow, PTL DEF ChainSpec, Spec

(* The chain implements the sweeping controller: nothing reaches the       *)
(* arbitration in a way its own specification does not know.               *)
THEOREM ChainImplementsSweeping == ChainSpec => Sweeping!Spec
<1>1. ChainInit => Sweeping!Init
  BY DEF ChainInit
<1> QED BY <1>1, ChainStepBelow, PTL DEF ChainSpec, Sweeping!Spec

(* Every step of the chain is one of the drive controller or leaves it     *)
(* unchanged.  (The chain starts when the drive controller is configured.) *)
THEOREM ChainImplementsDriving == ChainSpec => [][Driving!Next]_(Driving!driveVars)
  BY ChainStepBelow, PTL DEF ChainSpec

----------------------------------------------------------------------------
(* The invariant that carries a stop from node to node.                    *)

(* Each component keeps its own invariant. *)
ComponentInv ==
    /\ TypeOK /\ Arbiter!HeldInv /\ Drive!RestInv
    /\ settled \in 0..AgeCap

(* The stop that the sweeping controller holds is the last zero twist, and *)
(* once it has been in time for a period it is fresh.                      *)
StopInv ==
    /\ wheel["safety_stop"].age = zeroAge
    /\ settled > 0 => zeroAge <= StopWindow

(* The chain has no direct commands, and its wheels accept what they get. *)
NoDirect == ~held["direct"].valid
AllStored == \A w \in {"left", "right"} : stored[w]

TwistRests == held["twist"].linear = 0 /\ held["twist"].angular = 0

(* A commander whose command was fresh when the held twist was sent. *)
Sender(s) == s \in Commanders /\ wheel[s].age <= Windows[s] + held["twist"].age

(* While the stop has settled, the twist that the drive controller holds   *)
(* is the one of this period's arbitration, or, before it has run, of the  *)
(* last one.  In general it is an old one, but one that moves was fresh    *)
(* somewhere when it was sent.                                             *)
TwistInv ==
    /\ \/ settled > 1
       \/ settled > 0 /\ ~arbitrationDue
       => TwistRests
    /\ TwistRests \/ \E s \in Commanders : Sender(s)

ChainInv ==
    /\ ComponentInv /\ StopInv /\ NoDirect /\ AllStored /\ TwistInv
    /\ StopReachesWheels /\ StopReachesTools /\ CommandDeadman

(* The types of the two instances of a component agree.                    *)
LEMMA ComponentTypes ==
    /\ Arbiter!TypeOK <=> Sweeping!TypeOK
    /\ Drive!TypeOK <=> Driving!TypeOK
<1>1. Arbiter!TypeOK <=> Sweeping!TypeOK
  BY DEF Arbiter!TypeOK, Sweeping!TypeOK, Arbiter!Held, Sweeping!Held,
     Arbiter!Twist, Sweeping!Twist, Arbiter!Sources, Sweeping!Sources,
     Arbiter!Topics, Sweeping!Topics, Arbiter!ZeroTwist, Sweeping!ZeroTwist,
     Arbiter!Silence, Sweeping!Silence
<1>2. Drive!TypeOK <=> Driving!TypeOK
  BY DEF Drive!TypeOK, Driving!TypeOK, Drive!CommandTopics, Driving!CommandTopics,
     Drive!Wheels, Driving!Wheels
<1> QED BY <1>1, <1>2

(* What the invariants of the components say of the values used below. *)
LEMMA ComponentValues ==
    ASSUME ComponentInv
    PROVE  /\ wheel["safety_stop"].age \in 0..AgeCap
           /\ \A s \in Commanders : wheel[s].age \in 0..AgeCap /\ Windows[s] \in Nat
           /\ zeroAge \in 0..AgeCap /\ settled \in 0..AgeCap
           /\ DOMAIN wheel = {"safety_stop", "joystick", "navigation"}
           /\ held \in [{"twist", "direct"} -> Drive!Command]
           /\ held["twist"].age \in 0..AgeCap
           /\ wheels \in [Drive!Wheels -> Int]
<1>1. Commanders \subseteq Arbiter!Sources /\ \A s \in Commanders : Windows[s] \in Nat
  BY ChainSwitchAssumption, ChainWindowsAssumption DEF Windows, Arbiter!Sources
<1>2. wheel \in [Arbiter!Sources -> Arbiter!Held]
  BY DEF ComponentInv, Arbiter!HeldInv, Arbiter!TypeOK
<1>3. \A s \in Arbiter!Sources : wheel[s].age \in 0..AgeCap
  BY <1>2 DEF Arbiter!Held
<1>4. zeroAge \in 0..AgeCap /\ settled \in 0..AgeCap
  BY DEF ComponentInv, TypeOK
<1>5. /\ held \in [{"twist", "direct"} -> Drive!Command]
      /\ held["twist"].age \in 0..AgeCap
      /\ wheels \in [Drive!Wheels -> Int]
  BY DEF ComponentInv, Drive!RestInv, Drive!TypeOK, Drive!Command, Drive!CommandTopics
<1> QED BY <1>1, <1>2, <1>3, <1>4, <1>5 DEF Arbiter!Sources

(* A stop raised by the controller itself publishes a zero twist. *)
LEMMA InternalStopZero ==
    ASSUME NEW e \in Events, PublishInternalStopEvent(e) PROVE zeroAge' = 0
  BY DEF PublishInternalStopEvent, LatchStop, PublishZeroCommands

(* Only time makes the last zero twist older. *)
LEMMA ZeroStep ==
    ASSUME TypeOK, SafetyStep
    PROVE  zeroAge' \in {0, zeroAge}
<1> USE DEF latchVars, canVars, resetVars, wdVars, ButtonFrames
<1>1. CASE OnStopMessage
  BY <1>1 DEF OnStopMessage, LatchStop, PublishZeroCommands
<1>2. ASSUME NEW data \in BOOLEAN, EnableController(data) PROVE zeroAge' \in {0, zeroAge}
  BY <1>2 DEF EnableController, ClearLatchedStop
<1>3. ASSUME NEW c \in Clients, TakeResponse(c) \/ ServeClearRequest(c)
      PROVE  zeroAge' = zeroAge
  BY <1>3 DEF TakeResponse, ServeClearRequest
<1>4. CASE OnPublishTimer
  BY <1>4 DEF OnPublishTimer
<1>5. ASSUME NEW s \in Sockets, EndPoll(s) \/ OpenSocket(s) \/ ReadFails(s)
      PROVE  zeroAge' = zeroAge
  BY <1>5 DEF EndPoll, OpenSocket, ReadFails
<1>6. ASSUME NEW s \in Sockets, ReadFrame(s) PROVE zeroAge' \in {0, zeroAge}
  <2>0. DetectedEvents \subseteq Events
    BY DEF Events
  <2>1. UNCHANGED <<latchVars, stopQueue>> \/ \E e \in Events : PublishInternalStopEvent(e)
    <3>1. CASE s = "button"
      <4>1. rx[s] \in Seq(FramesOf(s)) /\ rx[s] # <<>>
        BY <1>6 DEF ReadFrame, TypeOK
      <4>2. Head(rx[s]) \in ButtonFrames /\ ParseButtonCanFrame(Head(rx[s]))
        BY <1>6, <3>1, <4>1 DEF ReadFrame, FramesOf
      <4> QED BY <2>0, <4>2 DEF ParseButtonCanFrame, DetectedEvents
    <3>2. CASE s # "button"
      <4>1. ParseMotorCanFrame(s)
        BY <1>6, <3>2 DEF ReadFrame
      <4> QED BY <2>0, <4>1 DEF ParseMotorCanFrame, DetectedEvents
    <3> QED BY <3>1, <3>2
  <2> QED BY <2>1, InternalStopZero
<1>7. CASE CheckButtonHeartbeatWatchdog
  <2>1. "button heartbeat missing" \in Events
    BY DEF Events, DetectedEvents
  <2> QED BY <1>7, <2>1, InternalStopZero DEF CheckButtonHeartbeatWatchdog
<1>8. CASE RepeatStop
  BY <1>8 DEF RepeatStop, PublishZeroCommands
<1>9. CASE ResetLatchedStop
  BY <1>9 DEF ResetLatchedStop, ClearLatchedStop
<1>10. CASE SendClearRequest
  BY <1>10 DEF SendClearRequest
<1>11. CASE ServiceNotReady \/ AwaitResponse
  BY <1>11 DEF ServiceNotReady, AwaitResponse, NextClient, ClearLatchedStop
<1>12. CASE Watchdog
  BY <1>12 DEF Watchdog, WatchdogWake, WatchdogExchange, WatchdogPublishZero,
               WatchdogPublishStop, PublishZeroCommands
<1>13. ASSUME NEW e \in PeerEvents, PeerStop(e) PROVE zeroAge' = zeroAge
  BY <1>13 DEF PeerStop
<1> QED
  BY <1>1, <1>2, <1>3, <1>4, <1>5, <1>6, <1>7, <1>8, <1>9, <1>10, <1>11, <1>12, <1>13
     DEF SafetyStep, Executor

(* While the stop is fresh the arbitration sends a command, and none that  *)
(* moves; otherwise one that moves comes from a commander that is fresh.   *)
LEMMA ArbitrateFacts ==
    ASSUME Arbiter!HeldInv, Arbitrate
    PROVE  /\ wheel' = wheel /\ ~arbitrationDue'
           /\ wheel["safety_stop"].age <= StopWindow =>
                 ~wheelSent'.moving /\ ~toolSent'.moving /\ wheelSent' # Sweeping!Silence
           /\ ~wheelSent'.moving \/ \E s \in Commanders : wheel[s].age <= Windows[s]
<1> DEFINE fresh == {s \in Arbiter!Sources : Arbiter!WheelActive(s)}
           freshTools == {s \in Arbiter!Sources : Arbiter!ToolActive(s)}
<1>1. /\ wheelSent' \in Arbiter!Selected(fresh, wheel, Priorities)
      /\ toolSent' \in Arbiter!Selected(freshTools, tool, Priorities)
      /\ wheel' = wheel /\ arbitrationDue' = FALSE
  BY ArbiterActions DEF Arbitrate, Arbiter!PublishSelectedCommands
<1>2. /\ Priorities \in [Arbiter!Sources -> Int]
      /\ \A s \in Arbiter!Sources \ {"safety_stop"} : Priorities[s] < Priorities["safety_stop"]
      /\ fresh \in SUBSET Arbiter!Sources /\ freshTools \in SUBSET Arbiter!Sources
  BY DEF Priorities, Arbiter!Sources
<1>3. /\ wheel["safety_stop"] = tool["safety_stop"] /\ ~wheel["safety_stop"].command.moving
      /\ wheel["safety_stop"].age < AgeCap => wheel["safety_stop"].seen
      /\ wheel["safety_stop"].age \in 0..AgeCap
      /\ wheel["safety_stop"].command \in Arbiter!Twist \cup {Arbiter!ZeroTwist}
  BY DEF Arbiter!HeldInv, Arbiter!StopHeld, Arbiter!TypeOK, Arbiter!Held, Arbiter!Sources
<1>4. ASSUME wheel["safety_stop"].age <= StopWindow
      PROVE  ~wheelSent'.moving /\ ~toolSent'.moving /\ wheelSent' # Sweeping!Silence
  <2>1. wheel["safety_stop"].seen
    BY <1>3, <1>4, ChainWindowsAssumption, TimesAssumption
  <2>2. "safety_stop" \in fresh /\ "safety_stop" \in freshTools
    BY <1>3, <1>4, <2>1 DEF Arbiter!WheelActive, Arbiter!ToolActive, Arbiter!IsActive,
       Arbiter!Sources, Used, Windows
  <2> HIDE DEF fresh, freshTools
  <2>3. wheelSent' = wheel["safety_stop"].command /\ toolSent' = tool["safety_stop"].command
    BY <1>1, <1>2, <2>2, ArbiterParameters, Arbiter!StopOutranks
  <2>4. wheel["safety_stop"].command.topic # "none"
    BY <1>3 DEF Arbiter!Twist, Arbiter!Topics, Arbiter!ZeroTwist
  <2> QED BY <1>3, <2>3, <2>4 DEF Sweeping!Silence
<1>5. ASSUME wheelSent'.moving PROVE \E s \in Commanders : wheel[s].age <= Windows[s]
  <2> HIDE DEF fresh
  <2>1. wheelSent' \in {Arbiter!ZeroTwist, Arbiter!Silence}
           \/ \E s \in fresh : wheelSent' = wheel[s].command
    BY <1>1, <1>2, ArbiterParameters, Arbiter!SelectedIsBest
  <2>2. PICK s \in fresh : wheelSent' = wheel[s].command
    BY <1>5, <2>1 DEF Arbiter!ZeroTwist, Arbiter!Silence
  <2>3. s # "safety_stop"
    BY <1>3, <1>5, <2>2
  <2>4. s \in Used /\ wheel[s].age <= Windows[s]
    BY <2>2 DEF fresh, Arbiter!WheelActive, Arbiter!IsActive
  <2> QED BY <2>3, <2>4 DEF Used
<1> QED BY <1>1, <1>4, <1>5

(* Every step of the chain keeps the invariants of the components.         *)
LEMMA ComponentKept ==
    ComponentInv /\ [ChainNext]_chainVars => ComponentInv'
<1> SUFFICES ASSUME ComponentInv, [ChainNext]_chainVars PROVE ComponentInv'
  OBVIOUS
<1>1. TypeOK' /\ Arbiter!HeldInv' /\ Drive!RestInv'
  <2>1. [Next]_vars /\ [Arbiter!Next]_(Arbiter!sweepVars) /\ [Drive!Next]_(Drive!driveVars)
    BY ChainStepBelow, ArbiterActions, DriveActions
  <2> QED
    BY <2>1, NextType, ArbiterParameters, Arbiter!HeldKept, DriveParameters, Drive!RestKept
       DEF ComponentInv
<1>2. settled' \in 0..AgeCap
  <2>1. Older(settled) \in 0..AgeCap /\ 0 \in 0..AgeCap
    BY OlderType, TimesType DEF ComponentInv
  <2> QED
    BY <2>1 DEF ComponentInv, ChainNext, SafetyStep, CommandsArrive, Arbitrate,
       UpdateWheels, ActivateDrive, PeriodEnds, chainVars
<1> QED BY <1>1, <1>2 DEF ComponentInv

(* The initial state has the invariant. *)
LEMMA ChainInvInit == ChainInit => ChainInv
<1> SUFFICES ASSUME ChainInit PROVE ChainInv
  OBVIOUS
<1>1. TypeOK /\ settled \in 0..AgeCap
  BY InitType, TimesType DEF ChainInit
<1>2. Arbiter!HeldInv
  <2>1. Arbiter!Init
    BY DEF ChainInit, Sweeping!Init, Arbiter!Init, Sweeping!Unheard, Arbiter!Unheard,
       Sweeping!ZeroTwist, Arbiter!ZeroTwist, Sweeping!Silence, Arbiter!Silence,
       Sweeping!Sources, Arbiter!Sources
  <2> QED BY <2>1, ArbiterParameters, Arbiter!HeldInit
<1>3. Drive!RestInv
  <2>1. Drive!Nothing \in Drive!Command
    BY DriveParameters, Drive!NothingType
  <2>2. held = [t \in {"twist", "direct"} |-> Drive!Nothing]
    BY DEF ChainInit, Driving!Nothing, Drive!Nothing
  <2>3. Drive!TypeOK
    <3>1. held \in [{"twist", "direct"} -> Drive!Command]
      BY <2>1, <2>2
    <3>2. wheels \in [{"left", "right"} -> Int] /\ stored \in [{"left", "right"} -> BOOLEAN]
      BY DEF ChainInit, Driving!AllStop, Driving!Wheels
    <3>3. quiet \in 0..AgeCap /\ lifecycle = "inactive" /\ updateDue = FALSE
      BY TimesType DEF ChainInit
    <3> QED BY <3>1, <3>2, <3>3 DEF Drive!TypeOK, Drive!Wheels, Drive!CommandTopics, Drive!Command
  <2>4. Drive!HeldIsHeard /\ Drive!OnlyActiveUpdated /\ Drive!Deadman
    BY <2>2 DEF ChainInit, Driving!AllStop, Driving!Wheels, Drive!Nothing, Drive!HeldIsHeard,
       Drive!OnlyActiveUpdated, Drive!Deadman, Drive!Wheels, Drive!CommandTopics
  <2> QED BY <2>3, <2>4 DEF Drive!RestInv
<1>4. /\ StopInv /\ NoDirect /\ AllStored /\ TwistInv
      /\ StopReachesWheels /\ StopReachesTools /\ CommandDeadman
  <2>1. /\ held["direct"] = Driving!Nothing /\ held["twist"] = Driving!Nothing
        /\ wheels["left"] = 0 /\ wheels["right"] = 0
        /\ wheel["safety_stop"].age = AgeCap
        /\ zeroAge = AgeCap /\ settled = 0 /\ \A w \in {"left", "right"} : stored[w]
    BY DEF ChainInit, Init, Driving!AllStop, Driving!Wheels, Sweeping!Init, Sweeping!Unheard,
       Sweeping!Sources
  <2> QED
    BY <2>1 DEF StopInv, NoDirect, AllStored, TwistInv, TwistRests, StopReachesWheels,
       StopReachesTools, CommandDeadman, WheelsRest, Driving!Nothing
<1> QED BY <1>1, <1>2, <1>3, <1>4 DEF ChainInv, ComponentInv

(* The update rests the wheels when the held twist rests or is too old. *)
LEMMA WheelsUpdated ==
    ASSUME ComponentInv, NoDirect, UpdateWheels
    PROVE  /\ AllStored'
           /\ (TwistRests \/ (DriveWindow > 0 /\ held["twist"].age > DriveWindow)) => WheelsRest'
<1> DEFINE value == [w \in Drive!Wheels |-> Drive!WheelVelocity(Drive!InForce, w)]
<1>0. Drive!TypeOK
  BY DEF ComponentInv, Drive!RestInv
<1>1. Drive!Write(value)
  BY DriveActions DEF UpdateWheels, Drive!Update
<1>2. value \in [Drive!Wheels -> Int]
  BY <1>0, DriveParameters, Drive!InForceFacts, Drive!WheelVelocityFacts
<1>3. AllStored'
  BY <1>1 DEF Drive!Write, AllStored, Drive!Wheels
<1>4. ASSUME TwistRests \/ (DriveWindow > 0 /\ held["twist"].age > DriveWindow)
      PROVE  WheelsRest'
  <2>1. ~Drive!Moves(Drive!InForce)
    <3>1. TwistRests \/ ~Drive!Usable("twist")
      BY <1>4, ComponentValues, ChainWindowsAssumption DEF Drive!Usable, Drive!IsFresh
    <3> QED
      BY <3>1 DEF Drive!Moves, Drive!InForce, Drive!Usable, Drive!Nothing, NoDirect, TwistRests
  <2>2. value["left"] = 0 /\ value["right"] = 0
    BY <1>0, <2>1, DriveParameters, Drive!InForceFacts, Drive!WheelVelocityFacts
       DEF Drive!Wheels
  <2> HIDE DEF value
  <2>3. wheels' = [w \in Drive!Wheels |-> value[w]]
    BY <1>1, <1>3 DEF Drive!Write, AllStored, Drive!Wheels
  <2> QED BY <2>2, <2>3 DEF WheelsRest, Drive!Wheels
<1> QED BY <1>3, <1>4

(* Activating and deactivating the drive controller rests the wheels. *)
LEMMA DriveSwitched ==
    ASSUME ComponentInv, NoDirect, ActivateDrive
    PROVE  /\ AllStored' /\ NoDirect' /\ WheelsRest'
           /\ TwistRests' \/ held' = held
<1>1. /\ Drive!Write(Drive!AllStop)
      /\ held' = held \/ held' = [t \in {"twist", "direct"} |-> Drive!Nothing]
  BY DriveActions DEF ActivateDrive, Drive!OnActivate, Drive!OnDeactivate,
     Drive!ResetCommandState, Drive!CommandTopics
<1>2. AllStored' /\ wheels' = Drive!AllStop
  BY <1>1 DEF Drive!Write, AllStored, Drive!Wheels, Drive!AllStop
<1> QED
  BY <1>1, <1>2 DEF NoDirect, TwistRests, WheelsRest, Drive!AllStop, Drive!Wheels, Drive!Nothing

(* Every step of the chain keeps the invariant: the zero twist, the        *)
(* arbitration and the update each take the stop one node further.         *)
LEMMA ChainInvKept == ChainInv /\ [ChainNext]_chainVars => ChainInv'
<1> SUFFICES ASSUME ChainInv, [ChainNext]_chainVars PROVE ChainInv'
  OBVIOUS
<1>0. ComponentInv /\ ComponentInv'
  BY ComponentKept DEF ChainInv
<1> DEFINE Kept == /\ StopInv' /\ NoDirect' /\ AllStored' /\ TwistInv'
                   /\ StopReachesWheels' /\ StopReachesTools' /\ CommandDeadman'
<1> USE DEF StopInv, NoDirect, AllStored, TwistInv, TwistRests, StopReachesWheels,
            StopReachesTools, CommandDeadman, WheelsRest
<1>1. ASSUME SafetyStep PROVE Kept
  <2>1. zeroAge' \in {0, zeroAge}
    BY <1>0, <1>1, ZeroStep DEF ComponentInv
  <2>2. /\ wheel'["safety_stop"].age = zeroAge'
        /\ \A s \in Commanders : wheel'[s] = wheel[s]
        /\ UNCHANGED <<arbitrationDue, wheelSent, toolSent, driveVars, settled>>
    BY <1>0, <1>1, <2>1, ComponentValues, ChainSwitchAssumption
       DEF SafetyStep, DeliverZero, sweepVars, ChainInv,
           Sweeping!HandleSafetyStopCommand, Sweeping!Received, Sweeping!sentVars
  <2>3. /\ zeroAge \in Int /\ zeroAge' \in Int /\ StopWindow \in Int
        /\ zeroAge' <= zeroAge
    BY <1>0, <2>1, ComponentValues, ChainWindowsAssumption
  <2>4. settled' > 0 => zeroAge' <= StopWindow
    BY <2>2, <2>3 DEF ChainInv
  <2> QED
    BY <2>2, <2>4 DEF ChainInv, driveVars, Sender
<1>2. ASSUME CommandsArrive PROVE Kept
  <2>1. /\ wheel'["safety_stop"] = wheel["safety_stop"]
        /\ \A s \in Commanders : wheel'[s].age = wheel[s].age \/ wheel'[s].age = 0
        /\ UNCHANGED <<arbitrationDue, wheelSent, toolSent, driveVars, settled, zeroAge>>
    <3>1. UNCHANGED <<arbitrationDue, wheelSent, toolSent, driveVars, settled, zeroAge>>
      BY <1>2 DEF CommandsArrive, Sweeping!HandleMotionCommand, Sweeping!HandleWebTeleop,
         Sweeping!HandleWheelJoystickCommand, Sweeping!HandleWheelNavigationCommand,
         Sweeping!HandleToolJoystickCommand, Sweeping!HandleControlMode,
         Sweeping!HandleWheelScale, Sweeping!HandleToolScale,
         Sweeping!sentVars, vars, latchVars
    <3>2. \/ wheel' = wheel
          \/ \E s \in {"joystick", "navigation"} : \E c :
                wheel' = [wheel EXCEPT ![s] = Sweeping!Received(c)]
      BY <1>2, Zenon DEF CommandsArrive, Sweeping!HandleMotionCommand, Sweeping!HandleWebTeleop,
         Sweeping!HandleWheelJoystickCommand, Sweeping!HandleWheelNavigationCommand,
         Sweeping!HandleToolJoystickCommand, Sweeping!HandleControlMode,
         Sweeping!HandleWheelScale, Sweeping!HandleToolScale
    <3>3. \A c : Sweeping!Received(c).age = 0
      BY DEF Sweeping!Received
    <3>4. DOMAIN wheel = {"safety_stop", "joystick", "navigation"}
      BY <1>0, ComponentValues
    <3>5. Commanders \subseteq {"joystick", "navigation"}
      BY ChainSwitchAssumption
    <3> QED BY <3>1, <3>2, <3>3, <3>4, <3>5
  <2>2. \A s \in Commanders : wheel'[s].age <= wheel[s].age
    BY <1>0, <2>1, ComponentValues
  <2>3. \A s \in Commanders : /\ wheel[s].age \in Nat /\ wheel'[s].age \in Nat
                              /\ Windows[s] \in Nat
    BY <1>0, <2>1, ComponentValues
  <2>4. held' = held /\ held["twist"].age \in Nat
    BY <1>0, <2>1, ComponentValues DEF driveVars
  <2>5. \A s \in Commanders : Sender(s) => Sender(s)'
    BY <2>2, <2>3, <2>4 DEF Sender
  <2>6. CommandDeadman'
    BY <2>1, <2>2, <2>3, ChainWindowsAssumption DEF ChainInv, driveVars
  <2> QED BY <2>1, <2>4, <2>5, <2>6 DEF ChainInv, driveVars
<1>3. ASSUME Arbitrate PROVE Kept
  <2>1. /\ wheel' = wheel
        /\ wheel["safety_stop"].age <= StopWindow =>
              ~wheelSent'.moving /\ ~toolSent'.moving /\ wheelSent' # Sweeping!Silence
        /\ ~wheelSent'.moving \/ \E s \in Commanders : wheel[s].age <= Windows[s]
    BY <1>0, <1>3, ArbitrateFacts DEF ComponentInv
  <2>2. /\ UNCHANGED <<wheels, updateDue, stored, settled, zeroAge>>
        /\ held'["direct"] = held["direct"]
    BY <1>0, <1>3, ComponentValues
       DEF Arbitrate, Deliver, Driving!OnWheelCommand, Driving!OnCommand, vars, latchVars, driveVars
  <2>3. ASSUME wheelSent' # Sweeping!Silence
        PROVE  /\ held'["twist"].linear = (IF wheelSent'.moving THEN 1 ELSE 0)
               /\ held'["twist"].angular = 0 /\ held'["twist"].age = 0
    BY <1>0, <1>3, <2>3, ComponentValues
       DEF Arbitrate, Deliver, Driving!OnWheelCommand, Driving!OnCommand
  <2>4. wheelSent' = Sweeping!Silence => held' = held
    BY <1>3 DEF Arbitrate, Deliver, driveVars
  <2>5. settled > 0 => TwistRests'
    BY <2>1, <2>3 DEF ChainInv
  <2>6. settled > 0 => ~toolSent'.moving
    BY <2>1 DEF ChainInv
  <2>7. settled > 1 => settled > 0
    BY <1>0, ComponentValues
  <2>8. TwistRests' \/ \E s \in Commanders : Sender(s)'
    <3>1. CASE wheelSent' = Sweeping!Silence
      BY <2>1, <2>4, <3>1 DEF ChainInv, Sender
    <3>2. CASE wheelSent' # Sweeping!Silence /\ ~wheelSent'.moving
      BY <2>3, <3>2
    <3>3. CASE wheelSent' # Sweeping!Silence /\ wheelSent'.moving
      <4>1. PICK s \in Commanders : wheel[s].age <= Windows[s]
        BY <2>1, <3>3
      <4>2. wheel'[s].age <= Windows[s] + held'["twist"].age
        BY <1>0, <2>1, <2>3, <3>3, <4>1, ComponentValues
      <4> QED BY <4>2 DEF Sender
    <3> QED BY <3>1, <3>2, <3>3
  <2>9. CommandDeadman' /\ StopReachesWheels' /\ StopReachesTools' /\ StopInv'
    BY <2>1, <2>2, <2>6 DEF ChainInv
  <2> QED BY <2>2, <2>5, <2>7, <2>8, <2>9 DEF ChainInv
<1>4. ASSUME UpdateWheels PROVE Kept
  <2>1. /\ AllStored'
        /\ (TwistRests \/ (DriveWindow > 0 /\ held["twist"].age > DriveWindow)) => WheelsRest'
    BY <1>0, <1>4, WheelsUpdated DEF ChainInv
  <2>2. UNCHANGED <<wheel, arbitrationDue, toolSent, held, settled, zeroAge>>
    BY <1>4 DEF UpdateWheels, Driving!Update, vars, latchVars, sweepVars
  <2>3. CommandDeadman'
    <3> SUFFICES ASSUME DriveWindow > 0,
                        \A s \in Commanders : wheel[s].age > Windows[s] + DriveWindow
                 PROVE  WheelsRest'
      BY <2>2 DEF CommandDeadman
    <3>1. CASE held["twist"].age > DriveWindow
      BY <2>1, <3>1
    <3>2. CASE ~(held["twist"].age > DriveWindow)
      <4>1. \A s \in Commanders : ~Sender(s)
        BY <1>0, <3>2, ComponentValues, ChainWindowsAssumption DEF Sender
      <4> QED BY <2>1, <4>1 DEF ChainInv
    <3> QED BY <3>1, <3>2
  <2> QED BY <2>1, <2>2, <2>3 DEF ChainInv, Sender
<1>5. ASSUME ActivateDrive PROVE Kept
  <2>1. AllStored' /\ NoDirect' /\ WheelsRest' /\ (TwistRests' \/ held' = held)
    BY <1>0, <1>5, DriveSwitched DEF ChainInv
  <2>2. UNCHANGED <<wheel, arbitrationDue, toolSent, settled, zeroAge>>
    BY <1>5 DEF ActivateDrive, vars, latchVars, sweepVars
  <2> QED BY <2>1, <2>2 DEF ChainInv, Sender
<1>6. ASSUME PeriodEnds PROVE Kept
  <2>1. /\ wheel'["safety_stop"].age = Older(wheel["safety_stop"].age)
        /\ \A s \in Commanders : wheel'[s].age = Older(wheel[s].age)
        /\ zeroAge' = Older(zeroAge)
        /\ ~arbitrationDue /\ arbitrationDue' /\ ~toolSent'.moving
        /\ settled' = IF latched /\ zeroAge < StopWindow THEN Older(settled) ELSE 0
    BY <1>0, <1>6, ComponentValues, ChainSwitchAssumption
       DEF PeriodEnds, Tick, Sweeping!Period, Sweeping!Aged, Sweeping!Sources, Sweeping!Older,
           Older, Sweeping!Silence, ComponentInv, Arbiter!HeldInv, Arbiter!TypeOK, Arbiter!Held
  <2>2. /\ \A t \in {"twist", "direct"} : /\ held'[t].linear = held[t].linear
                                          /\ held'[t].angular = held[t].angular
                                          /\ held'[t].valid = held[t].valid
                                          /\ held'[t].age = Older(held[t].age)
        /\ ~updateDue /\ updateDue' = (lifecycle = "active") /\ UNCHANGED <<wheels, stored>>
    BY <1>0, <1>6, ComponentValues
       DEF PeriodEnds, Driving!Period, Driving!CommandTopics, Drive!Command, Driving!Older, Older
  <2>3. lifecycle # "active" => WheelsRest
    BY <2>2 DEF ChainInv, ComponentInv, Drive!RestInv, Drive!Deadman, Drive!Wheels
  <2>4. /\ settled' > 0 => zeroAge' <= StopWindow
        /\ settled' > 1 => settled > 0
    BY <1>0, <2>1, ComponentValues, ChainWindowsAssumption, TimesAssumption DEF Older
  <2>5. \A s \in Commanders : Sender(s) => Sender(s)'
    BY <1>0, <2>1, <2>2, ComponentValues, TimesAssumption DEF Sender, Older
  <2>6. CommandDeadman'
    BY <2>2, <2>3
  <2> QED BY <2>1, <2>2, <2>3, <2>4, <2>5, <2>6 DEF ChainInv
<1>7. ASSUME UNCHANGED chainVars PROVE Kept
  BY <1>7 DEF chainVars, vars, latchVars, sweepVars, driveVars, ChainInv, Sender
<1>8. Kept
  BY <1>1, <1>2, <1>3, <1>4, <1>5, <1>6, <1>7 DEF ChainNext
<1> QED BY <1>0, <1>8 DEF ChainInv

(* The invariant holds in every state of the chain. *)
LEMMA ChainInvariant == ChainSpec => []ChainInv
  BY ChainInvInit, ChainInvKept, PTL DEF ChainSpec

----------------------------------------------------------------------------
(* The theorems. *)

(* Every variable of the three nodes keeps its type, whatever they send    *)
(* each other.                                                             *)
THEOREM ChainTypeCorrect == ChainSpec => []ChainTypeOK
<1>1. ChainInv => ChainTypeOK
  BY ComponentTypes DEF ChainInv, ComponentInv, ChainTypeOK, Arbiter!HeldInv, Drive!RestInv
<1> QED BY <1>1, ChainInvariant, PTL

(* A latched stop rests the wheels within two periods of fresh zero        *)
(* twists, for every window, every schedule of the nodes and every use of  *)
(* the lifecycle of the drive controller.                                  *)
THEOREM StopRestsWheels == ChainSpec => []StopReachesWheels
  BY ChainInvariant, PTL DEF ChainInv

(* The tools are told to stand within one such period. *)
THEOREM StopRestsTools == ChainSpec => []StopReachesTools
  BY ChainInvariant, PTL DEF ChainInv

(* The dead man's switch of the whole chain: once the last command of every *)
(* commander is older than the two windows together, the wheels stand, for  *)
(* every set of commanders, every pair of windows, and whether or not       *)
(* anything is published while no source is fresh.                          *)
THEOREM WheelsDoNotOutliveCommanders == ChainSpec => []CommandDeadman
  BY ChainInvariant, PTL DEF ChainInv

(* Every period that the latch and a free executor last is one of fresh    *)
(* zero twists.                                                            *)
LEMMA LatchedPeriodsSettle ==
    HeldWhileFree /\ [ChainNext]_chainVars =>
        [PeriodEnds /\ latched /\ ~Blocked /\ StopWindow > 0
            => settled' = Older(settled)]_chainVars
  BY DEF HeldWhileFree, PeriodEnds, Tick, Blocked

(* The promise that a latched stop keeps the robot at rest is kept wherever *)
(* no hardware service is configured: once the latch has brought the       *)
(* wheels to rest they stand until its release.  So the only thing that    *)
(* breaks LatchedRests is the reset that waits for hardware                *)
(* (clearHardwareSafetyStops).                                             *)
THEOREM WithoutClientsRestLasts ==
    ASSUME ClearClients = 0, StopWindow > 0
    PROVE  ChainSpec => [][latched /\ latched' /\ settled > 1 => settled' > 1]_chainVars
<1>1. TypeOK => ~Blocked
  BY DEF TypeOK, Clients
<1>2. /\ ComponentInv /\ ~Blocked
      /\ [PeriodEnds /\ latched /\ ~Blocked /\ StopWindow > 0
            => settled' = Older(settled)]_chainVars
      /\ [ChainNext]_chainVars
      => [latched /\ latched' /\ settled > 1 => settled' > 1]_chainVars
  <2> SUFFICES ASSUME ComponentInv, ~Blocked,
                      PeriodEnds /\ latched => settled' = Older(settled),
                      ChainNext, latched, settled > 1
               PROVE  settled' > 1
    BY DEF chainVars
  <2>1. CASE PeriodEnds
    BY <2>1, ComponentValues, TimesAssumption DEF Older
  <2>2. CASE ~PeriodEnds
    BY <2>2 DEF ChainNext, SafetyStep, CommandsArrive, Arbitrate, UpdateWheels, ActivateDrive
  <2> QED BY <2>1, <2>2
<1> QED
  BY <1>1, <1>2, LatchedPeriodsSettle, ChainImplementsSafety, HeldWheneverFree, ChainInvariant, PTL
     DEF ChainSpec, ChainInv, ComponentInv

=============================================================================
