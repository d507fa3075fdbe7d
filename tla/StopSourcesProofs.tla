-------------------------- MODULE StopSourcesProofs --------------------------
(***************************************************************************)
(* Theorems about StopSources and the two nodes it is built from, for all  *)
(* messages, limits, windows and flags, with nodes that crash or not.      *)
(***************************************************************************)
EXTENDS StopSources, TLAPS

(***************************************************************************)
(* The strengthening for TiltRemembered: the supervisor has latched every  *)
(* tilt that counts, and a disabled stop remembers none.                   *)
(***************************************************************************)
TiltLatched == tilted => stopEnabled /\ (RequireManualReset => faultLatched)

TiltInv == TiltLatched /\ TiltRemembered

(* The strengthening for ReportedStopStands: a stop that is reported was   *)
(* published by the process that reports it.                               *)
ReportedIsStored == Reporting => stored

StopInv == ReportedIsStored /\ ReportedStopStands

----------------------------------------------------------------------------
(* Types. *)

(* The ages of the two nodes stay below their bounds. *)
LEMMA AgesBounded ==
    /\ \A age \in 0..ImuAgeCap : OlderImu(age) \in 0..ImuAgeCap
    /\ \A age \in 0..SampleAgeCap : OlderSample(age) \in 0..SampleAgeCap
  BY ImuTimesAssumption, SampleTimesAssumption DEF OlderImu, OlderSample

Imu == [seen : BOOLEAN, timed : BOOLEAN, age : 0..ImuAgeCap, msg : ImuMessage]

(* A node that has never heard its IMU has the type. *)
LEMMA NeverHeardType == rosTime \in BOOLEAN => NeverHeard \in Imu
<1>1. (CHOOSE m \in ImuMessages : TRUE) \in ImuMessage
  BY ImuMessagesAssumption
<1>2. 0 \in 0..ImuAgeCap
  BY ImuTimesAssumption
<1> QED
  BY <1>1, <1>2 DEF NeverHeard, Imu

(* A message with a defect is still a message. *)
LEMMA DefectType ==
    ASSUME NEW msg \in ImuMessage
    PROVE  [msg EXCEPT !.defect = TRUE] \in ImuMessage
  BY DEF ImuMessage

(* So does the input from which startup grace is counted. *)
LEMMA BaselineType == imu \in Imu => Baseline \in Imu
<1> SUFFICES ASSUME imu \in Imu PROVE [imu EXCEPT !.timed = TRUE, !.age = 0] \in Imu
  BY DEF Baseline
<1>1. 0 \in 0..ImuAgeCap
  BY ImuTimesAssumption
<1> HIDE DEF ImuMessage
<1> QED
  BY <1>1 DEF Imu

(* The reason of a stop is a set of its parts. *)
LEMMA ReasonType ==
    ASSUME NEW input \in Imu
    PROVE  StopReason(input) \subseteq ReasonParts
<1>1. ImuError(input) = "" \/ ImuError(input) \in ReasonParts
  BY Zenon DEF ImuError, ReasonParts
<1>2. SupervisorReason(input.msg) \subseteq ReasonParts
  BY DEF SupervisorReason, Warnings, ReasonParts
<1>3. "imu timeout error" \in ReasonParts
  BY DEF ReasonParts
<1> QED
  BY <1>1, <1>2, <1>3 DEF StopReason

(* No step of the attitude controller, and no restart, breaks a type. *)
LEMMA AttitudeTypeKept ==
    AttitudeTypeOK /\ (AttitudeRestart \/ [AttitudeNext]_attitudeVars) => AttitudeTypeOK'
<1> SUFFICES ASSUME AttitudeTypeOK, AttitudeRestart \/ [AttitudeNext]_attitudeVars
             PROVE  AttitudeTypeOK'
  OBVIOUS
<1> USE DEF AttitudeTypeOK, imuVars, serviceVars
<1>0. imu \in Imu
  BY DEF Imu
<1>1. CASE AttitudeOnTimer
  <2>1. CASE ~rosTime
    BY <1>1, <2>1 DEF AttitudeOnTimer
  <2>2. CASE rosTime
    <3>1. Baseline \in Imu
      BY <1>0, BaselineType
    <3>2. imu' \in Imu
      BY <1>1, <2>2, <3>1 DEF AttitudeOnTimer
    <3>3. reported' \subseteq ReasonParts
      BY <1>1, <2>2, <3>1, ReasonType DEF AttitudeOnTimer
    <3>4. faultLatched' \in BOOLEAN /\ tilted' \in BOOLEAN /\ estimateHealthy' \in BOOLEAN
      <4>1. Supervised(Baseline) \in BOOLEAN /\ FaultAfter(imu.msg) \in BOOLEAN
            /\ HealthyEstimate(Baseline) \in BOOLEAN /\ StopNow(imu.msg) \in BOOLEAN
        BY AttitudeFlagsAssumption, <3>1 DEF Supervised, FaultAfter, HealthyEstimate, StopNow,
           RollStops, PitchStops, Measurable, Imu, ImuMessage
      <4> HIDE DEF AttitudeTypeOK
      <4>2. faultLatched \in BOOLEAN /\ tilted \in BOOLEAN
        BY DEF AttitudeTypeOK
      <4> QED
        BY <1>1, <2>2, <4>1, <4>2 DEF AttitudeOnTimer
    <3> QED
      BY <1>1, <2>2, <3>2, <3>3, <3>4 DEF AttitudeOnTimer, Imu
  <2> QED
    BY <2>1, <2>2
<1>2. ASSUME NEW msg \in ImuMessages, OnImuMessage(msg) PROVE AttitudeTypeOK'
  <2>1. imu' \in Imu
    <3>1. msg \in ImuMessage /\ [msg EXCEPT !.defect = TRUE] \in ImuMessage
      BY ImuMessagesAssumption, DefectType
    <3>2. 0 \in 0..ImuAgeCap
      BY ImuTimesAssumption
    <3> QED
      BY <1>2, <3>1, <3>2 DEF OnImuMessage, Imu
  <2> QED
    BY <1>2, <2>1 DEF OnImuMessage, Imu
<1>3. CASE ResetFault
  BY <1>3 DEF ResetFault
<1>4. ASSUME NEW data \in BOOLEAN, EnableAttitudeEstimation(data) PROVE AttitudeTypeOK'
  BY <1>4 DEF EnableAttitudeEstimation
<1>5. ASSUME NEW data \in BOOLEAN, EnableSafetyStop(data) PROVE AttitudeTypeOK'
  BY <1>5 DEF EnableSafetyStop
<1>6. CASE RosTimeStarts
  BY <1>6 DEF RosTimeStarts
<1>7. CASE TransformArrives
  BY <1>7 DEF TransformArrives
<1>8. CASE AttitudePeriod
  <2>1. imu' \in Imu
    BY <1>0, <1>8, AgesBounded DEF AttitudePeriod, Imu
  <2> QED
    BY <1>8, <2>1 DEF AttitudePeriod, Imu
<1>9. CASE AttitudeRestart
  BY <1>9, NeverHeardType DEF AttitudeRestart, Imu
<1>10. CASE UNCHANGED attitudeVars
  BY <1>10 DEF attitudeVars
<1> QED
  BY <1>1, <1>2, <1>3, <1>4, <1>5, <1>6, <1>7, <1>8, <1>9, <1>10
     DEF AttitudeNext, AttitudeNode, AttitudeEnvironment

Sample == [seen : BOOLEAN, age : 0..SampleAgeCap, hits : BOOLEAN, finite : BOOLEAN, lag : Lags]

(* An input that never spoke has the type. *)
LEMMA NoSampleType == [i \in Inputs |-> NoSample] \in [Inputs -> Sample]
  BY SampleTimesAssumption DEF NoSample, Sample

(* No step of the collision detector, and no restart, breaks a type. *)
LEMMA CollisionTypeKept ==
    CollisionTypeOK /\ (CollisionRestart \/ [CollisionNext]_collisionVars) => CollisionTypeOK'
<1> SUFFICES ASSUME CollisionTypeOK, CollisionRestart \/ [CollisionNext]_collisionVars
             PROVE  CollisionTypeOK'
  OBVIOUS
<1> USE DEF CollisionTypeOK
<1>0. samples \in [Inputs -> Sample]
  BY DEF Sample
<1>1. CASE DetectorOnTimer
  <2>1. LatchAfter \in BOOLEAN /\ ImpactNow \in BOOLEAN
    BY DEF LatchAfter, ImpactNow
  <2> QED
    BY <1>1, <2>1 DEF DetectorOnTimer
<1>2. ASSUME NEW input \in Inputs, NEW hits \in BOOLEAN, NEW finite \in BOOLEAN,
             NEW lag \in Lags, OnSample(input, hits, finite, lag)
      PROVE  CollisionTypeOK'
  <2>1. [seen |-> TRUE, age |-> 0, hits |-> hits, finite |-> finite, lag |-> lag] \in Sample
    BY SampleTimesAssumption DEF Sample
  <2>2. samples' \in [Inputs -> Sample]
    BY <1>0, <1>2, <2>1 DEF OnSample
  <2> QED
    BY <1>2, <2>2 DEF OnSample, Sample
<1>3. CASE ResetImpactLatch
  BY <1>3 DEF ResetImpactLatch
<1>4. ASSUME NEW data \in BOOLEAN, EnableDetector(data) PROVE CollisionTypeOK'
  BY <1>4 DEF EnableDetector
<1>5. CASE DetectorPeriod
  <2>1. samples' \in [Inputs -> Sample]
    BY <1>0, <1>5, AgesBounded DEF DetectorPeriod, Sample
  <2> QED
    BY <1>5, <2>1 DEF DetectorPeriod, Sample
<1>6. CASE CollisionRestart
  <2>1. samples' \in [Inputs -> Sample]
    BY <1>6, NoSampleType DEF CollisionRestart
  <2> QED
    BY <1>6, <2>1 DEF CollisionRestart, Sample
<1>7. CASE UNCHANGED collisionVars
  BY <1>7 DEF collisionVars
<1> QED
  BY <1>1, <1>2, <1>3, <1>4, <1>5, <1>6, <1>7 DEF CollisionNext, DetectorNode

----------------------------------------------------------------------------
(* The composed steps. *)

(* A step of the composition is, for each node, one of its own steps or a  *)
(* restart.                                                                *)
LEMMA StepsBelow ==
    [SourcesNext]_sourcesVars =>
        /\ AttitudeRestart \/ [AttitudeNext]_attitudeVars
        /\ CollisionRestart \/ [CollisionNext]_collisionVars
  BY DEF SourcesNext, sourcesVars, sourceVars, AttitudeActs, CollisionActs, Surroundings,
     FreshSource, SourceCrashes, SourceRestarts, SafetyStarts, SafetyCrashes, SafetyActs,
     OperatorActs, PeerAsks, AttitudeNext, AttitudeEnvironment, CollisionNext

(* The initial state has the types. *)
LEMMA SourcesTypeInit == SourcesInit => SourcesTypeOK
<1> SUFFICES ASSUME SourcesInit PROVE SourcesTypeOK
  OBVIOUS
<1>1. AttitudeStart /\ rosTime \in BOOLEAN
  BY Zenon DEF SourcesInit, AttitudeInit
<1>2. AttitudeTypeOK
  BY <1>1, NeverHeardType DEF AttitudeStart, AttitudeTypeOK, Imu
<1>3. CollisionTypeOK
  BY NoSampleType DEF SourcesInit, CollisionInit, CollisionTypeOK, Sample
<1> QED
  BY <1>2, <1>3 DEF SourcesInit, SourcesTypeOK, Latch!TypeOK

(* No step breaks a type. *)
LEMMA SourcesTypeKept == SourcesTypeOK /\ [SourcesNext]_sourcesVars => SourcesTypeOK'
<1> SUFFICES ASSUME SourcesTypeOK, [SourcesNext]_sourcesVars PROVE SourcesTypeOK'
  OBVIOUS
<1>1. AttitudeTypeOK' /\ CollisionTypeOK'
  BY StepsBelow, AttitudeTypeKept, CollisionTypeKept DEF SourcesTypeOK
<1> DEFINE Flags == /\ launched' \in Deployments
                    /\ sourceUp' \in BOOLEAN /\ up' \in BOOLEAN /\ stored' \in BOOLEAN
                    /\ excused' \in BOOLEAN
                    /\ armed' \in BOOLEAN /\ stopped' \in BOOLEAN /\ pending' \in BOOLEAN
<1>2. ASSUME NEW requested \in BOOLEAN, PublishIf(requested)
      PROVE  /\ stored' \in BOOLEAN /\ excused' \in BOOLEAN
             /\ armed' \in BOOLEAN /\ stopped' \in BOOLEAN /\ pending' \in BOOLEAN
  BY <1>2 DEF PublishIf, Publish, answerVars, Latch!Request, SourcesTypeOK, Latch!TypeOK
<1>3. ASSUME AttitudeActs PROVE Flags
  <2>1. StopRequested \in BOOLEAN
    BY DEF StopRequested
  <2> QED
    BY <1>2, <1>3, <2>1 DEF AttitudeActs, SourcesTypeOK
<1>4. ASSUME CollisionActs PROVE Flags
  <2>1. ImpactStopRequested \in BOOLEAN
    BY DEF ImpactStopRequested
  <2> QED
    BY <1>2, <1>4, <2>1 DEF CollisionActs, SourcesTypeOK
<1>5. ASSUME Surroundings \/ SourceCrashes \/ SourceRestarts \/ SafetyCrashes
             \/ UNCHANGED sourcesVars
      PROVE  Flags
  BY <1>5 DEF Surroundings, SourceCrashes, SourceRestarts, SafetyCrashes, sourcesVars,
     sourceVars, latchVars, answerVars, SourcesTypeOK, Latch!TypeOK
<1>6. ASSUME SafetyStarts PROVE Flags
  BY <1>6 DEF SafetyStarts, sourceVars, SourcesTypeOK
<1>7. ASSUME SafetyActs \/ PeerAsks PROVE Flags
  BY <1>7 DEF SafetyActs, PeerAsks, Latch!Answer, Latch!Detect, Latch!Request, sourceVars,
     SourcesTypeOK, Latch!TypeOK
<1>8. ASSUME OperatorActs PROVE Flags
  <2>1. Reporting \in BOOLEAN
    BY DetectorFlagsAssumption DEF Reporting, SourcesTypeOK, CollisionTypeOK
  <2>2. stopped' \in BOOLEAN /\ armed' \in BOOLEAN /\ pending' \in BOOLEAN
    BY <1>8 DEF OperatorActs, Latch!Release, Latch!Arm, SourcesTypeOK, Latch!TypeOK
  <2> QED
    BY <1>8, <2>1, <2>2 DEF OperatorActs, sourceVars, SourcesTypeOK
<1> QED
  BY <1>1, <1>3, <1>4, <1>5, <1>6, <1>7, <1>8 DEF SourcesNext, SourcesTypeOK, Latch!TypeOK

(* Every variable keeps its type, for every value of the constants.        *)
THEOREM SourcesTypeCorrect == SourcesSpec => []SourcesTypeOK
  BY SourcesTypeInit, SourcesTypeKept, PTL DEF SourcesSpec

----------------------------------------------------------------------------
(* Dangers are remembered. *)

(* The stop supervisor keeps the invariant. *)
LEMMA TiltKept == TiltInv /\ (AttitudeRestart \/ [AttitudeNext]_attitudeVars) => TiltInv'
<1> SUFFICES ASSUME TiltInv, AttitudeRestart \/ [AttitudeNext]_attitudeVars
             PROVE  TiltInv'
  OBVIOUS
<1> USE DEF TiltInv, TiltLatched, TiltRemembered, imuVars, serviceVars
<1>1. CASE AttitudeOnTimer
  <2>1. CASE ~rosTime
    BY <1>1, <2>1 DEF AttitudeOnTimer
  <2>2. CASE rosTime
    <3>1. /\ faultLatched' = IF Supervised(Baseline) THEN FaultAfter(imu.msg) ELSE faultLatched
          /\ tilted' = (tilted \/ (Supervised(Baseline) /\ StopNow(imu.msg)))
          /\ estimateHealthy' = HealthyEstimate(Baseline)
          /\ reported' = StopReason(Baseline)
          /\ stopEnabled' = stopEnabled
      BY <1>1, <2>2 DEF AttitudeOnTimer
    <3>2. TiltLatched'
      BY <3>1 DEF FaultAfter, Supervised
    <3>3. ASSUME RequireManualReset, tilted', estimateHealthy', stopEnabled'
          PROVE  reported' # {}
      <4>1. Supervised(Baseline) /\ FaultAfter(imu.msg)
        BY <3>1, <3>3 DEF Supervised, FaultAfter
      <4>2. Baseline.msg = imu.msg
        BY DEF Baseline
      <4>3. reported' = SupervisorReason(imu.msg)
        BY <3>1, <3>3, <4>2 DEF StopReason, HealthyEstimate
      <4>4. SupervisorReason(imu.msg) # {}
        BY <4>1 DEF SupervisorReason, StopNow
      <4> QED
        BY <4>3, <4>4
    <3> QED
      BY <3>2, <3>3
  <2> QED
    BY <2>1, <2>2
<1>2. ASSUME NEW msg \in ImuMessages, OnImuMessage(msg) PROVE TiltInv'
  BY <1>2 DEF OnImuMessage
<1>3. CASE ResetFault
  BY <1>3 DEF ResetFault
<1>4. ASSUME NEW data \in BOOLEAN, EnableAttitudeEstimation(data) PROVE TiltInv'
  BY <1>4 DEF EnableAttitudeEstimation
<1>5. ASSUME NEW data \in BOOLEAN, EnableSafetyStop(data) PROVE TiltInv'
  BY <1>5 DEF EnableSafetyStop
<1>6. CASE AttitudeEnvironment
  BY <1>6 DEF AttitudeEnvironment, RosTimeStarts, TransformArrives, AttitudePeriod
<1>7. CASE AttitudeRestart
  BY <1>7 DEF AttitudeRestart
<1>8. CASE UNCHANGED attitudeVars
  BY <1>8 DEF attitudeVars
<1> QED
  BY <1>1, <1>2, <1>3, <1>4, <1>5, <1>6, <1>7, <1>8 DEF AttitudeNext, AttitudeNode

(* Within one life of the node the supervisor keeps the fault of a tilt    *)
(* until it is reset, also while the attitude is unknown, and reports it   *)
(* whenever it is known; for all limits and messages.                      *)
THEOREM TiltIsRemembered == SourcesSpec => [](TiltRemembered /\ TiltLatched)
<1>1. SourcesInit => TiltInv
  BY DEF SourcesInit, AttitudeInit, AttitudeStart, TiltInv, TiltLatched, TiltRemembered
<1>2. TiltInv /\ [SourcesNext]_sourcesVars => TiltInv'
  BY TiltKept, StepsBelow
<1>3. TiltInv => TiltRemembered /\ TiltLatched
  BY DEF TiltInv
<1> QED
  BY <1>1, <1>2, <1>3, PTL DEF SourcesSpec

(* Rounding moves an angle by half a step at most. *)
LEMMA HalfStep ==
    ASSUME NEW angle \in Int
    PROVE  /\ Quantize(angle) \in Int
           /\ 2 * Quantize(angle) - 2 * angle \in -Resolution..Resolution
<1> DEFINE size == Abs(angle)
           steps == (2 * size + Resolution) \div (2 * Resolution)
           rounded == steps * Resolution
<1>1. Resolution \in Nat /\ Resolution > 0 /\ size \in Nat
  BY AnglesAssumption DEF Abs
<1>2. /\ steps \in Nat
      /\ (2 * Resolution) * steps <= 2 * size + Resolution
      /\ 2 * size + Resolution < (2 * Resolution) * steps + 2 * Resolution
  <2> DEFINE whole == 2 * size + Resolution
             step == 2 * Resolution
  <2>1. whole \in Nat /\ step \in Nat /\ step > 0
    BY <1>1
  <2>2. steps = whole \div step
    OBVIOUS
  <2> HIDE DEF whole, step, steps
  <2>3. steps \in Nat /\ step * steps <= whole /\ whole < step * steps + step
    BY <2>1, <2>2
  <2> QED
    BY <2>3 DEF whole, step
<1> HIDE DEF size, steps
<1>3. (2 * Resolution) * steps = 2 * rounded /\ rounded \in Nat
  BY <1>1, <1>2
<1>4. Quantize(angle) = IF angle < 0 THEN -rounded ELSE rounded
  BY DEF Quantize, size, steps
<1>5. size = IF angle < 0 THEN -angle ELSE angle
  BY DEF size, Abs
<1> HIDE DEF rounded
<1> QED
  BY <1>1, <1>2, <1>3, <1>4, <1>5

(* A deviation that is large before the rounding reaches its limit after. *)
LEMMA LargeDeviation ==
    ASSUME NEW angle \in Int, NEW nominal \in Int, NEW limit \in Nat,
           2 * Abs(angle - nominal) >= 2 * limit + Resolution
    PROVE  Deviation(angle, nominal) >= limit
  BY HalfStep, AnglesAssumption DEF Deviation, Abs

(* A large tilt stops. *)
LEMMA LargeTiltStops ==
    ASSUME NEW msg \in ImuMessage, LargeTilt(msg)
    PROVE  StopNow(msg)
<1>1. msg.roll \in Int /\ msg.pitch \in Int
  BY DEF ImuMessage
<1> QED
  BY <1>1, LargeDeviation, AnglesAssumption DEF LargeTilt, StopNow, RollStops, PitchStops

(* Rounding hides no tilt that exceeds a limit by half a step, for all     *)
(* resolutions, limits and nominal attitudes.                              *)
THEOREM LargeTiltsReported == SourcesSpec => LargeTiltReported
<1>1. SourcesTypeOK /\ [SourcesNext]_sourcesVars =>
         [AttitudeOnTimer /\ stopEnabled /\ estimateHealthy' /\ rosTime /\ LargeTilt(imu.msg)
             => reported' # {}]_attitudeVars
  <2> SUFFICES ASSUME SourcesTypeOK, AttitudeOnTimer, stopEnabled, estimateHealthy', rosTime,
                      LargeTilt(imu.msg)
               PROVE  reported' # {}
    OBVIOUS
  <2>1. imu.msg \in ImuMessage
    BY DEF SourcesTypeOK, AttitudeTypeOK
  <2>2. StopNow(imu.msg)
    BY <2>1, LargeTiltStops
  <2>3. estimateHealthy' = HealthyEstimate(Baseline) /\ reported' = StopReason(Baseline)
    BY DEF AttitudeOnTimer
  <2>4. Baseline.msg = imu.msg
    BY DEF Baseline
  <2>5. reported' = SupervisorReason(imu.msg)
    BY <2>3, <2>4 DEF StopReason, HealthyEstimate
  <2> QED
    BY <2>2, <2>5 DEF SupervisorReason, StopNow
<1> QED
  BY <1>1, SourcesTypeCorrect, PTL DEF SourcesSpec, LargeTiltReported

(* An impact that was evaluated stays reported until it is reset, for any  *)
(* number of inputs.                                                       *)
THEOREM ImpactIsRemembered == SourcesSpec => []ImpactRemembered
<1>1. SourcesInit => ImpactRemembered
  BY DEF SourcesInit, CollisionInit, ImpactRemembered
<1>2. ImpactRemembered /\ (CollisionRestart \/ [CollisionNext]_collisionVars)
        => ImpactRemembered'
  BY DEF CollisionRestart, CollisionNext, DetectorNode, DetectorOnTimer, LatchAfter, OnSample,
     ResetImpactLatch, EnableDetector, DetectorPeriod, collisionVars, ImpactRemembered
<1> QED
  BY <1>1, <1>2, StepsBelow, PTL DEF SourcesSpec

----------------------------------------------------------------------------
(* What is reported stands. *)

(* A node that publishes what it newly reports keeps the invariant. *)
LEMMA PublishKeeps ==
    ASSUME StopInv, UNCHANGED <<up, launched>>, NEW requested, PublishIf(requested),
           Reporting' => Reporting \/ requested
    PROVE  StopInv'
<1>1. CASE requested
  BY <1>1 DEF PublishIf, Publish, Latch!Request, StopInv, ReportedIsStored, ReportedStopStands
<1>2. CASE ~requested
  BY <1>2 DEF PublishIf, answerVars, StopInv, ReportedIsStored, ReportedStopStands
<1> QED
  BY <1>1, <1>2

(* Every step keeps the invariant. *)
LEMMA StopKept == StopInv /\ [SourcesNext]_sourcesVars => StopInv'
<1> SUFFICES ASSUME StopInv, [SourcesNext]_sourcesVars PROVE StopInv'
  OBVIOUS
<1>1. CASE AttitudeActs
  <2>1. Reporting' => Reporting \/ StopRequested
    BY <1>1 DEF AttitudeActs, Reporting, StopRequested
  <2> QED
    BY <1>1, <2>1, PublishKeeps DEF AttitudeActs
<1>2. CASE CollisionActs
  <2>1. Reporting' => Reporting \/ ImpactStopRequested
    BY <1>2 DEF CollisionActs, Reporting, ImpactStopRequested
  <2> QED
    BY <1>2, <2>1, PublishKeeps DEF CollisionActs
<1>3. ASSUME UNCHANGED Reporting, UNCHANGED stored,
             up' /\ armed' => (up /\ armed /\ (stopped => stopped') /\ (pending => pending')
                                            /\ (excused => excused'))
      PROVE  StopInv'
  BY <1>3 DEF StopInv, ReportedIsStored, ReportedStopStands
<1>4. CASE Surroundings
  <2>1. UNCHANGED Reporting
    BY <1>4 DEF Surroundings, AttitudeEnvironment, RosTimeStarts, TransformArrives,
       AttitudePeriod, DetectorPeriod, attitudeVars, collisionVars, Reporting
  <2> QED
    BY <1>3, <1>4, <2>1 DEF Surroundings, latchVars, answerVars
<1>5. CASE SourceCrashes \/ SourceRestarts
  <2>1. ~Reporting'
    BY <1>5 DEF SourceCrashes, SourceRestarts, FreshSource, AttitudeRestart, CollisionRestart,
       Reporting
  <2> QED
    BY <2>1 DEF StopInv, ReportedIsStored, ReportedStopStands
<1>6. ASSUME UNCHANGED <<sourceVars, launched>> PROVE UNCHANGED Reporting /\ UNCHANGED stored
  BY <1>6 DEF sourceVars, attitudeVars, collisionVars, Reporting
<1>7. CASE SafetyStarts
  <2>1. UNCHANGED Reporting /\ UNCHANGED stored
    BY <1>6, <1>7 DEF SafetyStarts
  <2>2. stored => pending'
    BY <1>7 DEF SafetyStarts
  <2> QED
    BY <2>1, <2>2 DEF StopInv, ReportedIsStored, ReportedStopStands
<1>8. CASE SafetyCrashes
  BY <1>6, <1>8 DEF SafetyCrashes, StopInv, ReportedIsStored, ReportedStopStands
<1>9. CASE SafetyActs
  <2>1. UNCHANGED Reporting /\ UNCHANGED stored
    BY <1>6, <1>9 DEF SafetyActs
  <2>2. armed' => armed /\ stopped'
    BY <1>9, Zenon DEF SafetyActs, Latch!Answer, Latch!Detect
  <2> QED
    BY <2>1, <2>2 DEF StopInv, ReportedIsStored, ReportedStopStands
<1>10. CASE OperatorActs
  BY <1>6, <1>10 DEF OperatorActs, StopInv, ReportedIsStored, ReportedStopStands
<1>11. CASE PeerAsks
  BY <1>6, <1>11 DEF PeerAsks, Latch!Request, StopInv, ReportedIsStored, ReportedStopStands
<1>12. CASE UNCHANGED sourcesVars
  BY <1>3, <1>6, <1>12 DEF sourcesVars, latchVars, answerVars
<1> QED
  BY <1>1, <1>2, <1>4, <1>5, <1>7, <1>8, <1>9, <1>10, <1>11, <1>12 DEF SourcesNext

(* A stop that a source reports stands, although it is published once, for *)
(* all messages, limits and windows and across all starts and crashes.     *)
THEOREM ReportedStopsStand == SourcesSpec => []ReportedStopStands
<1>1. SourcesInit => StopInv
  BY DEF SourcesInit, AttitudeInit, AttitudeStart, CollisionInit, Reporting, StopInv,
     ReportedIsStored, ReportedStopStands
<1>2. StopInv => ReportedStopStands
  BY DEF StopInv
<1> QED
  BY <1>1, <1>2, StopKept, PTL DEF SourcesSpec

=============================================================================
