------------------------- MODULE AttitudeController -------------------------
(***************************************************************************)
(* amr_sweeper_attitude_controller: the node that derives roll and pitch   *)
(* from one IMU and asks for a safety stop when the robot tilts, or when   *)
(* the IMU cannot be trusted.                                              *)
(*                                                                         *)
(* One thread runs the callbacks: the IMU subscription, the timer, and     *)
(* three services.  Angles are integers in fractions of Resolution, the    *)
(* step they are rounded to.  A message carries the attitude of base_link  *)
(* that its orientation stands for; whether a transform is needed to get   *)
(* it (framed) and whether the orientation is a rotation (oriented) is     *)
(* kept beside it.  A stop reason is the set of its parts.                 *)
(***************************************************************************)
EXTENDS Integers

CONSTANTS
    ImuMessages,         \* messages the IMU may send
    NominalRoll, NominalPitch, RollWarning, PitchWarning, RollStop, PitchStop,
    Resolution,          \* quantizeAngleRad rounds to multiples of this
    RequireManualReset,  \* stop.require_manual_reset
    TimeoutStopEnabled,  \* imu_timeout_stop_enabled
    ImuWarningAge,       \* imu_timeout_warning_sec, in timer periods
    ImuErrorAge,         \* imu_timeout_error_sec
    ImuGrace,            \* imu_startup_grace_sec
    ImuAgeCap            \* bound: the age of the last message stops growing here

Abs(x) == IF x < 0 THEN -x ELSE x

ImuMessage == [roll : Int, pitch : Int, lag : Int, defect : BOOLEAN, framed : BOOLEAN,
               oriented : BOOLEAN]

ASSUME ImuMessagesAssumption == ImuMessages \subseteq ImuMessage /\ ImuMessages # {}
ASSUME AnglesAssumption ==
    /\ NominalRoll \in Int /\ NominalPitch \in Int
    /\ RollWarning \in Nat /\ PitchWarning \in Nat /\ RollStop \in Nat /\ PitchStop \in Nat
    /\ Resolution \in Nat \ {0}
ASSUME AttitudeFlagsAssumption ==
    RequireManualReset \in BOOLEAN /\ TimeoutStopEnabled \in BOOLEAN
ASSUME ImuTimesAssumption ==
    /\ ImuWarningAge \in Nat \ {0} /\ ImuErrorAge \in Nat /\ ImuWarningAge <= ImuErrorAge
    /\ ImuGrace \in Nat
    /\ ImuAgeCap \in Nat /\ ImuAgeCap > ImuErrorAge /\ ImuAgeCap >= ImuGrace
    /\ \A m \in ImuMessages : Abs(m.lag) < ImuAgeCap

VARIABLES
    rosTime,          \* environment: now() is not zero
    started,          \* startup_time_ is not zero
    imu,              \* imu_inputs_: has_message, last_received_time, last_msg
    tfKnown,          \* environment: the transform from the IMU frame is in tf_buffer_
    estimating,       \* attitude_estimation_enabled_
    stopEnabled,      \* safety_stop_enabled_
    faultLatched,     \* stop_supervisor_.state_.latched
    estimateHealthy,  \* last_estimate_.healthy
    reported,         \* last_stop_reason_; {}: last_stop_request_active_ is false
    attitudeDue,      \* the timer has expired
    tilted            \* history: a stop attitude was evaluated in this life of the node, and
                      \* not reset since

imuVars == <<rosTime, started, imu, tfKnown>>
serviceVars == <<estimating, stopEnabled, faultLatched, estimateHealthy, tilted>>
attitudeVars == <<imuVars, serviceVars, reported, attitudeDue>>

----------------------------------------------------------------------------
(* The IMU. *)

(* checkImuHealth: the reason of its error, "" without one.  The input was *)
(* given a reception time, if only that of the start, unless its message   *)
(* came before ROS time was valid.                                         *)
ImuError(input) ==
    IF ~input.seen
    THEN IF input.age >= ImuGrace THEN "no messages received" ELSE ""
    ELSE IF input.msg.defect THEN "invalid message"
    ELSE IF input.timed /\ input.age > ImuErrorAge THEN "message timeout error"
    ELSE IF input.timed /\ input.age > ImuWarningAge THEN ""
    ELSE IF input.age + input.msg.lag > ImuErrorAge THEN "stale timestamp error"
    ELSE IF input.age + input.msg.lag < -ImuErrorAge THEN "timestamp is in the future"
    ELSE ""

(* transformMeasurementToBaseLink succeeds. *)
Measurable(msg) == msg.oriented /\ (msg.framed => tfKnown)

(* std::round: halves go away from zero. *)
Quantize(angle) ==
    LET steps == (2 * Abs(angle) + Resolution) \div (2 * Resolution)
    IN  IF angle < 0 THEN -(steps * Resolution) ELSE steps * Resolution

(* The average of one IMU is its own attitude. *)
HealthyEstimate(input) ==
    estimating /\ input.seen /\ ImuError(input) = "" /\ Measurable(input.msg)

Deviation(angle, nominal) == Abs(Quantize(angle) - nominal)

RollStops(msg) == Deviation(msg.roll, NominalRoll) >= RollStop
PitchStops(msg) == Deviation(msg.pitch, NominalPitch) >= PitchStop

(* Mutant: the robot must tilt in both axes. *)
StopNowBothAxes(msg) == RollStops(msg) /\ PitchStops(msg)

StopNow(msg) == RollStops(msg) \/ PitchStops(msg)

----------------------------------------------------------------------------
(* The stop supervisor. *)

(* Mutant: the supervisor holds a tilt only while it lasts. *)
FaultOfThisTick(msg) == RequireManualReset /\ StopNow(msg)

FaultAfter(msg) == RequireManualReset /\ (faultLatched \/ StopNow(msg))

Warnings(msg) ==
    IF StopNow(msg) THEN {}
    ELSE (IF Deviation(msg.roll, NominalRoll) >= RollWarning THEN {"roll warning"} ELSE {})
         \cup (IF Deviation(msg.pitch, NominalPitch) >= PitchWarning THEN {"pitch warning"} ELSE {})

(* The reason of StopSupervisor::update, if it stops. *)
SupervisorReason(msg) ==
    IF StopNow(msg)
    THEN (IF RollStops(msg) THEN {"roll stop"} ELSE {})
         \cup (IF PitchStops(msg) THEN {"pitch stop"} ELSE {})
    ELSE IF FaultAfter(msg) THEN Warnings(msg) \cup {"manual reset required"} ELSE {}

(* The reason of the stop that onTimer passes to publishSafety; {}: none.  *)
StopReason(input) ==
    IF ~stopEnabled THEN {}
    ELSE IF TimeoutStopEnabled /\ ImuError(input) # "" THEN {"imu timeout error", ImuError(input)}
    ELSE IF HealthyEstimate(input) THEN SupervisorReason(input.msg) ELSE {}

(* The supervisor is updated: with an estimate, and unless a timeout stops. *)
Supervised(input) == stopEnabled /\ HealthyEstimate(input)

(* Mutant: startup grace is never counted from the start of ROS time. *)
BaselineNow == imu

(* The input from which startup grace is counted, once ROS time is valid.  *)
Baseline == IF started \/ imu.seen THEN imu ELSE [imu EXCEPT !.timed = TRUE, !.age = 0]

(* publishSafety publishes when the step that it ends reports a new reason. *)
StopRequested == reported' # {} /\ reported' # reported

AttitudeOnTimer ==
    /\ attitudeDue
    /\ attitudeDue' = FALSE
    /\ IF ~rosTime
       THEN UNCHANGED <<imuVars, serviceVars, reported>>
       ELSE /\ started' = TRUE
            /\ imu' = Baseline
            /\ estimateHealthy' = HealthyEstimate(Baseline)
            /\ faultLatched' = IF Supervised(Baseline) THEN FaultAfter(imu.msg) ELSE faultLatched
            /\ tilted' = (tilted \/ (Supervised(Baseline) /\ StopNow(imu.msg)))
            /\ reported' = StopReason(Baseline)
            /\ UNCHANGED <<rosTime, tfKnown, estimating, stopEnabled>>

----------------------------------------------------------------------------
(* Subscription and services. *)

(* A sender on the same clock stamps zero before ROS time is valid, which  *)
(* is a defect.                                                            *)
OnImuMessage(msg) ==
    /\ imu' = [seen |-> TRUE, timed |-> rosTime, age |-> 0,
               msg |-> IF rosTime THEN msg ELSE [msg EXCEPT !.defect = TRUE]]
    /\ UNCHANGED <<rosTime, started, tfKnown, serviceVars, reported, attitudeDue>>

ResetFault ==
    /\ faultLatched' = FALSE
    /\ tilted' = FALSE
    /\ UNCHANGED <<imuVars, estimating, stopEnabled, estimateHealthy, reported,
                   attitudeDue>>

EnableAttitudeEstimation(data) ==
    /\ estimating' = data
    /\ estimateHealthy' = (estimateHealthy /\ data)
    /\ UNCHANGED <<imuVars, stopEnabled, faultLatched, tilted, reported, attitudeDue>>

EnableSafetyStop(data) ==
    /\ stopEnabled' = data
    /\ faultLatched' = (faultLatched /\ data)
    /\ tilted' = (tilted /\ data)
    /\ UNCHANGED <<imuVars, estimating, estimateHealthy, reported, attitudeDue>>

----------------------------------------------------------------------------
(* The environment. *)

RosTimeStarts ==
    /\ ~rosTime
    /\ rosTime' = TRUE
    /\ UNCHANGED <<started, imu, tfKnown, serviceVars, reported, attitudeDue>>

(* robot_state_publisher publishes the static transforms. *)
TransformArrives ==
    /\ ~tfKnown
    /\ tfKnown' = TRUE
    /\ UNCHANGED <<rosTime, started, imu, serviceVars, reported, attitudeDue>>

(* Mutant: the age of the last message grows without bound. *)
OlderImuUnbounded(age) == age + 1

OlderImu(age) == IF age < ImuAgeCap THEN age + 1 ELSE age

(* A period of the timer passes; the callback of the last one has run. *)
AttitudePeriod ==
    /\ ~attitudeDue
    /\ attitudeDue' = TRUE
    /\ imu' = IF imu.timed THEN [imu EXCEPT !.age = OlderImu(@)] ELSE imu
    /\ UNCHANGED <<rosTime, started, tfKnown, serviceVars, reported>>

----------------------------------------------------------------------------

(* No message yet.  Startup counts from the constructor if ROS time was    *)
(* valid then; the message is not read before one was received.            *)
NeverHeard ==
    [seen |-> FALSE, timed |-> rosTime, age |-> 0, msg |-> CHOOSE m \in ImuMessages : TRUE]

AttitudeStart ==
    /\ started = rosTime
    /\ imu = NeverHeard
    /\ estimating = TRUE
    /\ stopEnabled = TRUE
    /\ faultLatched = FALSE
    /\ estimateHealthy = FALSE
    /\ reported = {}
    /\ attitudeDue = FALSE
    /\ tilted = FALSE
    /\ tfKnown = FALSE

AttitudeInit == rosTime \in BOOLEAN /\ AttitudeStart

AttitudeRestart ==
    /\ started' = rosTime
    /\ imu' = NeverHeard
    /\ estimating' = TRUE
    /\ stopEnabled' = TRUE
    /\ faultLatched' = FALSE
    /\ estimateHealthy' = FALSE
    /\ reported' = {}
    /\ attitudeDue' = FALSE
    /\ tilted' = FALSE
    /\ tfKnown' = FALSE
    /\ UNCHANGED rosTime

AttitudeNode ==
    \/ AttitudeOnTimer
    \/ \E msg \in ImuMessages : OnImuMessage(msg)
    \/ ResetFault
    \/ \E data \in BOOLEAN : EnableAttitudeEstimation(data) \/ EnableSafetyStop(data)

AttitudeEnvironment == RosTimeStarts \/ TransformArrives \/ AttitudePeriod

AttitudeNext == AttitudeNode \/ AttitudeEnvironment

AttitudeSpec == AttitudeInit /\ [][AttitudeNext]_attitudeVars

----------------------------------------------------------------------------
(* Properties. *)

ReasonParts ==
    {"roll stop", "pitch stop", "roll warning", "pitch warning", "manual reset required",
     "imu timeout error", "no messages received", "invalid message", "message timeout error",
     "stale timestamp error", "timestamp is in the future"}

(* The type of every variable of the node. *)
AttitudeTypeOK ==
    /\ rosTime \in BOOLEAN /\ started \in BOOLEAN /\ tfKnown \in BOOLEAN
    /\ imu \in [seen : BOOLEAN, timed : BOOLEAN, age : 0..ImuAgeCap, msg : ImuMessage]
    /\ estimating \in BOOLEAN /\ stopEnabled \in BOOLEAN /\ faultLatched \in BOOLEAN
    /\ estimateHealthy \in BOOLEAN /\ attitudeDue \in BOOLEAN /\ tilted \in BOOLEAN
    /\ reported \subseteq ReasonParts

(* Within one life of the node, a robot that once tilted too far goes on   *)
(* reporting a stop, however it stands now, whenever its attitude is known *)
(* and for as long as nobody resets the fault (StopSupervisor::update,     *)
(* require_manual_reset).  A restarted node forgets it.                    *)
TiltRemembered ==
    RequireManualReset /\ tilted /\ estimateHealthy /\ stopEnabled => reported # {}

(* A tilt beyond its limit by half a step of the rounding, unrounded.      *)
LargeTilt(msg) ==
    \/ 2 * Abs(msg.roll - NominalRoll) >= 2 * RollStop + Resolution
    \/ 2 * Abs(msg.pitch - NominalPitch) >= 2 * PitchStop + Resolution

(* A tilt that exceeds its limit by half a step of the rounding is         *)
(* reported by the timer that sees it, whatever the signs and whatever the *)
(* other axis does: rounding hides no more than that (quantizeAngleRad,    *)
(* StopSupervisor::update, publishSafety).                                 *)
LargeTiltReported ==
    [][AttitudeOnTimer /\ stopEnabled /\ estimateHealthy' /\ rosTime /\ LargeTilt(imu.msg)
          => reported' # {}]_attitudeVars

=============================================================================
