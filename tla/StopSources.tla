---------------------------- MODULE StopSources ----------------------------
(***************************************************************************)
(* The nodes that ask for a safety stop, and the safety controller that    *)
(* answers, across late starts and crashes.                                *)
(*                                                                         *)
(* The attitude controller and the collision detector publish a stop when  *)
(* what they report changes, never again while it stays: whoever misses    *)
(* that message misses the stop.  The topic is transient-local, so that a  *)
(* controller that starts later is given the messages that the publishers  *)
(* alive still keep.  The safety controller is its abstraction StopLatch,  *)
(* which SafetyController implements.                                      *)
(*                                                                         *)
(* The launch file starts the sources at once and the safety controller    *)
(* after the spawners; nothing respawns a node, an operator may.  One of   *)
(* the two sources is looked at in a behavior, the other is a peer.        *)
(***************************************************************************)
EXTENDS AttitudeController, CollisionDetector

CONSTANTS
    Deployments,      \* which source is looked at: a subset of {"attitude", "collision"}
    NodesCrash        \* bound: may nodes crash?

ASSUME DeploymentsAssumption ==
    Deployments \subseteq {"attitude", "collision"} /\ NodesCrash \in BOOLEAN

VARIABLES
    launched,   \* the source that is looked at
    sourceUp,   \* its process runs
    up,         \* the process of the safety controller runs
    armed,      \* safety controller: enabled_
    stopped,    \* safety controller: latched_stop_active_
    pending,    \* a stop waits in its subscription
    stored,     \* the publisher of the source keeps a stop message
    excused     \* history: since the source published what it reports, an operator has
                \* released the latch or armed or disarmed the controller

Latch == INSTANCE StopLatch

answerVars == <<armed, stopped, pending>>
latchVars == <<up, answerVars, excused>>
sourceVars == <<attitudeVars, collisionVars, sourceUp, stored>>
sourcesVars == <<sourceVars, launched, latchVars>>

Reporting ==
    IF launched = "attitude" THEN reported # {} ELSE impactReported /\ PublishStopRequest

----------------------------------------------------------------------------
(* The stop topic. *)

(* Mutant: the topic is volatile. *)
PublishVolatile ==
    /\ stored' = FALSE
    /\ excused' = FALSE
    /\ IF up THEN Latch!Request ELSE UNCHANGED answerVars

Publish ==
    /\ stored' = TRUE
    /\ excused' = FALSE
    /\ IF up THEN Latch!Request ELSE UNCHANGED answerVars

PublishIf(requested) ==
    IF requested THEN Publish ELSE UNCHANGED <<stored, excused, answerVars>>

----------------------------------------------------------------------------
(* The sources. *)

AttitudeActs ==
    /\ launched = "attitude" /\ sourceUp
    /\ AttitudeNode
    /\ PublishIf(StopRequested)
    /\ UNCHANGED <<collisionVars, launched, sourceUp, up>>

CollisionActs ==
    /\ launched = "collision" /\ sourceUp
    /\ DetectorNode
    /\ PublishIf(ImpactStopRequested)
    /\ UNCHANGED <<attitudeVars, launched, sourceUp, up>>

(* Time, and what else surrounds the source. *)
Surroundings ==
    /\ \/ launched = "attitude" /\ (sourceUp \/ RosTimeStarts) /\ AttitudeEnvironment
          /\ UNCHANGED collisionVars
       \/ launched = "collision" /\ sourceUp /\ DetectorPeriod /\ UNCHANGED attitudeVars
    /\ UNCHANGED <<launched, sourceUp, stored, latchVars>>

(* The source begins anew: its variables take the values of its Init. *)
FreshSource ==
    \/ launched = "attitude" /\ AttitudeRestart /\ UNCHANGED collisionVars
    \/ launched = "collision" /\ CollisionRestart /\ UNCHANGED attitudeVars

(* What the publisher kept dies with it; what it sent does not. *)
SourceCrashes ==
    /\ NodesCrash
    /\ sourceUp
    /\ sourceUp' = FALSE
    /\ stored' = FALSE
    /\ FreshSource
    /\ UNCHANGED <<launched, latchVars>>

SourceRestarts ==
    /\ ~sourceUp
    /\ sourceUp' = TRUE
    /\ FreshSource
    /\ UNCHANGED <<launched, stored, latchVars>>

----------------------------------------------------------------------------
(* The safety controller, its operator and its other peers. *)

(* The subscription is given what the living publishers keep: the source   *)
(* looked at, and perhaps others.  Whether it starts armed is configured.  *)
SafetyStarts ==
    /\ ~up
    /\ up' = TRUE
    /\ armed' \in BOOLEAN
    /\ stopped' = FALSE
    /\ pending' \in IF stored THEN {TRUE} ELSE BOOLEAN
    /\ excused' = FALSE
    /\ UNCHANGED <<sourceVars, launched>>

(* The latch, the queue and the messages it kept itself are lost. *)
SafetyCrashes ==
    /\ NodesCrash
    /\ up
    /\ up' = FALSE
    /\ armed' = FALSE
    /\ stopped' = FALSE
    /\ pending' = FALSE
    /\ excused' = FALSE
    /\ UNCHANGED <<sourceVars, launched>>

SafetyActs ==
    /\ up
    /\ Latch!Answer \/ Latch!Detect
    /\ UNCHANGED <<sourceVars, launched, up, excused>>

OperatorActs ==
    /\ up
    /\ Latch!Release \/ \E on \in BOOLEAN : Latch!Arm(on)
    /\ excused' = Reporting
    /\ UNCHANGED <<sourceVars, launched, up>>

PeerAsks ==
    /\ up
    /\ Latch!Request
    /\ UNCHANGED <<sourceVars, launched, up, excused>>

----------------------------------------------------------------------------

SourcesInit ==
    /\ launched \in Deployments
    /\ IF launched = "attitude" THEN AttitudeInit ELSE rosTime = FALSE /\ AttitudeStart
    /\ CollisionInit
    /\ sourceUp = TRUE
    /\ up = FALSE
    /\ armed = FALSE /\ stopped = FALSE /\ pending = FALSE
    /\ stored = FALSE
    /\ excused = FALSE

SourcesNext ==
    \/ AttitudeActs \/ CollisionActs \/ Surroundings
    \/ SourceCrashes \/ SourceRestarts
    \/ SafetyStarts \/ SafetyCrashes
    \/ SafetyActs \/ OperatorActs \/ PeerAsks

(* The timers of a running source go on, and a stop that waits at an armed *)
(* controller is taken, as StopLatch promises.                             *)
TakeStop == up /\ Latch!Latch /\ UNCHANGED <<sourceVars, launched, up, excused>>

RunTimer ==
    /\ sourceUp
    /\ \/ launched = "attitude" /\ AttitudeOnTimer /\ PublishIf(StopRequested)
          /\ UNCHANGED collisionVars
       \/ launched = "collision" /\ DetectorOnTimer /\ PublishIf(ImpactStopRequested)
          /\ UNCHANGED attitudeVars
    /\ UNCHANGED <<launched, sourceUp, up>>

PeriodPasses ==
    /\ sourceUp
    /\ \/ launched = "attitude" /\ AttitudePeriod /\ UNCHANGED collisionVars
       \/ launched = "collision" /\ DetectorPeriod /\ UNCHANGED attitudeVars
    /\ UNCHANGED <<launched, sourceUp, stored, latchVars>>

SourcesSpec == SourcesInit /\ [][SourcesNext]_sourcesVars

SourcesFairSpec ==
    SourcesSpec /\ WF_sourcesVars(RunTimer) /\ WF_sourcesVars(PeriodPasses)
                /\ WF_sourcesVars(TakeStop)

----------------------------------------------------------------------------
(* Properties. *)

(* The types of the composed state. *)
SourcesTypeOK ==
    /\ AttitudeTypeOK /\ CollisionTypeOK
    /\ launched \in Deployments
    /\ sourceUp \in BOOLEAN /\ up \in BOOLEAN /\ stored \in BOOLEAN /\ excused \in BOOLEAN
    /\ Latch!TypeOK

(* A stop that a source reports stands: an armed safety controller has     *)
(* latched, or still has a stop before it, or its operator has intervened  *)
(* since the source published.  It holds although the source publishes     *)
(* changes only, and across late starts, crashes and restarts of either    *)
(* node (publishSafety, publishImpactState, the transient-local topic).    *)
ReportedStopStands == Reporting /\ up /\ armed => stopped \/ pending \/ excused

(* The source that is looked at sees a reason to stop: its IMU is silent,  *)
(* or tells of a tilt, or an input tells of an impact.                     *)
Deaf == TimeoutStopEnabled /\ rosTime /\ (imu.timed => imu.age = ImuAgeCap)
Tilting == HealthyEstimate(imu) /\ StopNow(imu.msg)
InDanger ==
    IF launched = "attitude" THEN stopEnabled /\ (Deaf \/ Tilting)
    ELSE ImpactNow /\ PublishStopRequest

(* A danger that lasts stops the robot or is overruled by its operator,    *)
(* whenever in the startup of the nodes it began (onTimer, checkImuHealth).*)
DangerStops ==
    <>[](InDanger /\ sourceUp /\ up /\ armed) => []<>(stopped \/ excused)

=============================================================================
