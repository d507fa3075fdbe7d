------------------------- MODULE CollisionDetector -------------------------
(***************************************************************************)
(* amr_sweeper_collision_detector: the node that reports an impact when    *)
(* the acceleration of an IMU, or the effort of a motor, reaches its       *)
(* threshold, and asks for a safety stop.                                  *)
(*                                                                         *)
(* One thread runs the callbacks: a subscription per input, the timer and  *)
(* two services.  The timer sees the last message of each input only.  A   *)
(* message is reduced to whether its force reaches the threshold of the    *)
(* input (hits), whether it is a number (finite), and, for an IMU, by how  *)
(* much its stamp is older than its reception (lag; zero without a stamp). *)
(***************************************************************************)
EXTENDS Integers, FiniteSets

CONSTANTS
    Imus, Motors,        \* enabled inputs
    Lags,                \* ages of a stamp at reception, in timer periods
    LatchCollision,      \* latch_collision_
    PublishStopRequest,  \* publish_stop_request_
    ImpactImuWarningAge, ImpactImuErrorAge,  \* imu_timeout_warning_sec_, imu_timeout_error_sec_
    MotorErrorAge,       \* motor_timeout_error_sec_
    SampleAgeCap         \* bound: the age of a sample stops growing here

Inputs == Imus \cup Motors

ASSUME InputsAssumption == Imus \cap Motors = {}
ASSUME DetectorFlagsAssumption == LatchCollision \in BOOLEAN /\ PublishStopRequest \in BOOLEAN
ASSUME SampleTimesAssumption ==
    /\ Lags \subseteq Int /\ 0 \in Lags
    /\ ImpactImuWarningAge \in Nat /\ ImpactImuErrorAge \in Nat /\ MotorErrorAge \in Nat
    /\ SampleAgeCap \in Nat
    /\ SampleAgeCap > ImpactImuErrorAge /\ SampleAgeCap > MotorErrorAge
    /\ SampleAgeCap > ImpactImuWarningAge

VARIABLES
    samples,         \* imu_inputs_, motor_force_inputs_: last message and its age
    detecting,       \* enabled_
    impactLatched,   \* impact_latched_
    impactReported,  \* last_reported_impact_state_
    detectorDue,     \* the timer has expired
    struck           \* history: an impact was evaluated and not reset since

collisionVars == <<samples, detecting, impactLatched, impactReported, detectorDue, struck>>

----------------------------------------------------------------------------

(* evaluateImuHealth, evaluateMotorForceHealth: healthy.  A sample whose   *)
(* age alone is worth a warning is not asked for its stamp.                *)
Healthy(input) ==
    LET sample == samples[input]
    IN  /\ sample.seen /\ sample.finite
        /\ IF input \in Motors THEN sample.age <= MotorErrorAge
           ELSE /\ sample.age <= ImpactImuErrorAge
                /\ \/ sample.age > ImpactImuWarningAge
                   \/ sample.age + sample.lag <= ImpactImuErrorAge

ImpactNow == detecting /\ \E i \in Inputs : Healthy(i) /\ samples[i].hits

(* Mutant: the latch follows the samples. *)
LatchFollows == ImpactNow

LatchAfter == ImpactNow \/ (LatchCollision /\ impactLatched)

(* publishImpactState asks for a stop when the step that it ends raises    *)
(* the reported state.                                                     *)
ImpactStopRequested == PublishStopRequest /\ ~impactReported /\ impactReported'

DetectorOnTimer ==
    /\ detectorDue
    /\ detectorDue' = FALSE
    /\ impactLatched' = LatchAfter
    /\ impactReported' = LatchAfter
    /\ struck' = (struck \/ ImpactNow)
    /\ UNCHANGED <<samples, detecting>>

(* A JointState without the joint, or without its effort, is dropped. *)
OnSample(input, hits, finite, lag) ==
    /\ input \in Motors => lag = 0
    /\ hits => finite
    /\ samples' = [samples EXCEPT ![input] =
                     [seen |-> TRUE, age |-> 0, hits |-> hits, finite |-> finite, lag |-> lag]]
    /\ UNCHANGED <<detecting, impactLatched, impactReported, detectorDue, struck>>

ResetImpactLatch ==
    /\ impactLatched' = FALSE
    /\ struck' = FALSE
    /\ UNCHANGED <<samples, detecting, impactReported, detectorDue>>

EnableDetector(data) ==
    /\ detecting' = data
    /\ impactLatched' = (impactLatched /\ data)
    /\ struck' = (struck /\ data)
    /\ UNCHANGED <<samples, impactReported, detectorDue>>

OlderSample(age) == IF age < SampleAgeCap THEN age + 1 ELSE age

(* A period of the timer passes; the callback of the last one has run. *)
DetectorPeriod ==
    /\ ~detectorDue
    /\ detectorDue' = TRUE
    /\ samples' = [i \in Inputs |-> [samples[i] EXCEPT !.age = OlderSample(@)]]
    /\ UNCHANGED <<detecting, impactLatched, impactReported, struck>>

----------------------------------------------------------------------------

NoSample == [seen |-> FALSE, age |-> SampleAgeCap, hits |-> FALSE, finite |-> TRUE, lag |-> 0]

CollisionInit ==
    /\ samples = [i \in Inputs |-> NoSample]
    /\ detecting = TRUE
    /\ impactLatched = FALSE
    /\ impactReported = FALSE
    /\ detectorDue = FALSE
    /\ struck = FALSE

CollisionRestart ==
    /\ samples' = [i \in Inputs |-> NoSample]
    /\ detecting' = TRUE
    /\ impactLatched' = FALSE
    /\ impactReported' = FALSE
    /\ detectorDue' = FALSE
    /\ struck' = FALSE

DetectorNode ==
    \/ DetectorOnTimer
    \/ \E input \in Inputs, hits, finite \in BOOLEAN, lag \in Lags :
          OnSample(input, hits, finite, lag)
    \/ ResetImpactLatch
    \/ \E data \in BOOLEAN : EnableDetector(data)

CollisionNext == DetectorNode \/ DetectorPeriod

CollisionSpec == CollisionInit /\ [][CollisionNext]_collisionVars

----------------------------------------------------------------------------
(* Properties. *)

(* The type of every variable of the node. *)
CollisionTypeOK ==
    /\ samples \in [Inputs -> [seen : BOOLEAN, age : 0..SampleAgeCap, hits : BOOLEAN,
                               finite : BOOLEAN, lag : Lags]]
    /\ detecting \in BOOLEAN /\ impactLatched \in BOOLEAN /\ impactReported \in BOOLEAN
    /\ detectorDue \in BOOLEAN /\ struck \in BOOLEAN

(* An impact that was evaluated stays reported until the operator resets   *)
(* the latch or disables the detector, whatever the inputs say since.      *)
ImpactRemembered == LatchCollision /\ struck => impactLatched /\ impactReported

=============================================================================
