-------------------------- MODULE StopVerification --------------------------
(***************************************************************************)
(* amr_sweeper_safety_controller: the direct stop of the motors over CAN   *)
(* and its verification from what the motors report.                       *)
(*                                                                         *)
(* Every action is an action of SafetyController with what it does on the  *)
(* bus: there the verdicts directHealthy and confirmed were any, here the  *)
(* frames and the reports decide them.  So every step implements a step of *)
(* SafetyController, and its invariants hold here too.                     *)
(*                                                                         *)
(* The sockets of the stop frames are opened again before every frame, so  *)
(* whether a frame leaves depends on the interface alone.  A report is     *)
(* reduced to what the checks distinguish: slow enough or not, and with    *)
(* or without an axis error.                                               *)
(***************************************************************************)
EXTENDS SafetyController

CONSTANTS
    OdriveNodes,        \* odrive_node_ids, a sequence of motors
    SteadydriveMotors,  \* steadydrive_motor_can_ids, a sequence of motors
    OdriveReports,      \* environment: the frames about an ODrive that appear on the bus
    StaleWindow         \* stop_feedback_stale_ms, in ticks

Elements(seq) == {seq[i] : i \in DOMAIN seq}
Wheels == Elements(OdriveNodes)
Brushes == Elements(SteadydriveMotors)
Motors == Wheels \cup Brushes

BusOf(m) == IF m \in Wheels THEN "odrive" ELSE "steadydrive"

(* "still" and "turning" report a speed, "error" and "clean" are ODrive    *)
(* heartbeats, "request" is another node's RTR for the encoder estimates.  *)
SpeedReports == {"still", "turning", "request"}
HeartbeatReports == {"error", "clean"}

ASSUME MotorsAssumption ==
    /\ OdriveNodes \in Seq(Wheels) /\ SteadydriveMotors \in Seq(Brushes)
    /\ Wheels \cap Brushes = {}
ASSUME ReportsAssumption == OdriveReports \subseteq SpeedReports \cup HeartbeatReports
ASSUME StaleAssumption == StaleWindow \in Nat

VARIABLES
    mail,       \* the report that waits in the feedback socket, about each motor
    slowAge,    \* age of a last speed report below the threshold, else too old
    errorAge,   \* age of a last heartbeat with an axis error, else too old
    watched,    \* history: the motor whose motion is followed, any one
    turning,    \* environment: the watched motor turns
    stoodAge,   \* history: ticks since the watched motor last stood still
    told,       \* history: motors that were sent a stop frame in this period
    awake       \* history: ticks for which the sockets have been polled without a pause

feedbackVars == <<mail, slowAge, errorAge>>
motionVars == <<watched, turning, stoodAge>>
verificationVars == <<vars, feedbackVars, motionVars, told, awake>>

TooOld == StaleWindow + 1
Reports(m) == IF m \in Wheels THEN OdriveReports ELSE {"still", "turning"}

----------------------------------------------------------------------------
(* The frames of one stop, in the order of sendDirectMotorStopCommands.    *)
(* The stop and the off frame of a Steadydrive motor count as one: a motor *)
(* that was sent only the first was not told.                              *)

FramesTo(kind, motors, flag) ==
    IF flag THEN [i \in DOMAIN motors |-> [kind |-> kind, motor |-> motors[i]]] ELSE <<>>

StopFrames ==
    FramesTo("stop", OdriveNodes, OdriveStopEnabled)
        \o FramesTo("stop", SteadydriveMotors, SteadydriveStopEnabled)

RequestFrames ==
    FramesTo("request", OdriveNodes, OdriveStopEnabled)
        \o FramesTo("request", SteadydriveMotors, SteadydriveStopEnabled)

Chain == IF DirectStopEnabled THEN StopFrames \o RequestFrames ELSE <<>>

(* The first frame that cannot be written ends the chain: sent of them     *)
(* have left.                                                              *)
SendFrames(sent) ==
    told' = told \cup {Chain[i].motor : i \in {j \in 1..sent : Chain[j].kind = "stop"}}

(* Mutant: the stop counts as sent when its first frame has left. *)
HealthySomeSent(sent) == sent > 0 \/ Chain = <<>>

HealthyAllSent(sent) == sent = Len(Chain)

SendDirectMotorStopCommands ==
    \E sent \in 0..Len(Chain) : SendFrames(sent) /\ directHealthy' = HealthyAllSent(sent)

SendNothing == UNCHANGED told

(* sendDirectMotorStopCommands on the watchdog thread: under the same      *)
(* lock, its verdict goes into the reason of the stop only.                *)
WatchdogSendsFrames == \E sent \in 0..Len(Chain) : SendFrames(sent)

----------------------------------------------------------------------------
(* What the motors report. *)

(* The report is stamped when it is read, not when it was sent. *)
ParseReport(m, report) ==
    /\ slowAge' = CASE report \in {"still", "request"} -> [slowAge EXCEPT ![m] = 0]
                    [] report = "turning"              -> [slowAge EXCEPT ![m] = TooOld]
                    [] OTHER                           -> slowAge
    /\ errorAge' = CASE report = "error" -> [errorAge EXCEPT ![m] = 0]
                     [] report = "clean" -> [errorAge EXCEPT ![m] = TooOld]
                     [] OTHER            -> errorAge

ReadReport(m) ==
    /\ pc = BusOf(m)
    /\ BusOf(m) \in openSockets
    /\ mail[m] # "none"
    /\ ParseReport(m, mail[m])
    /\ mail' = [mail EXCEPT ![m] = "none"]
    /\ UNCHANGED <<vars, motionVars, told, awake>>

(* Mutant: a motor that has sent no report lately is skipped. *)
VerifiedWhenSilent(m) == errorAge[m] > StaleWindow

(* The last speed report is recent and below the threshold, and no recent  *)
(* heartbeat tells of an axis error.                                       *)
Verified(m) == slowAge[m] <= StaleWindow /\ errorAge[m] > StaleWindow

VerifyStop == confirmed' = (DirectStopEnabled => \A m \in Motors : Verified(m))

----------------------------------------------------------------------------
(* SafetyController on its bus. *)

RaisesStop(s) == IF s = "button" THEN Head(rx[s]) # "status" ELSE ExternalMonitorEnabled

SendIf(condition) == IF condition THEN SendDirectMotorStopCommands ELSE SendNothing

(* The callbacks and stages that may send the frames of a stop. *)
StopOrHold ==
    /\ \/ OnStopMessage /\ SendIf(enabled)
       \/ \E s \in Sockets : ReadFrame(s) /\ SendIf(RaisesStop(s))
       \/ CheckButtonHeartbeatWatchdog /\ SendIf(HeartbeatStop)
       \/ /\ RepeatStop
          /\ SendIf(Holding)
          /\ Holding => VerifyStop
    /\ UNCHANGED <<feedbackVars, motionVars, awake>>

NoMail(s) == \A m \in Motors : BusOf(m) = s => mail[m] = "none"

(* A poll reads all frames of its socket; a failed read loses them. *)
PollEnds ==
    /\ \E s \in Sockets :
          \/ /\ EndPoll(s)
             /\ s \in openSockets => NoMail(s)
             /\ UNCHANGED mail
          \/ /\ ReadFails(s)
             /\ mail' = [m \in Motors |-> IF BusOf(m) = s THEN "none" ELSE mail[m]]
    /\ UNCHANGED <<slowAge, errorAge, motionVars, told, awake>>

EnablingOrDisabling ==
    /\ \E data \in BOOLEAN : EnableController(data)
    /\ awake' = 0
    /\ UNCHANGED <<feedbackVars, motionVars, told>>

OtherCallbacks ==
    /\ \/ \E c \in Clients : TakeResponse(c)
       \/ OnPublishTimer
       \/ \E s \in Sockets : OpenSocket(s)
       \/ ResetLatchedStop \/ SendClearRequest \/ ServiceNotReady \/ AwaitResponse
    /\ UNCHANGED <<feedbackVars, motionVars, told, awake>>

WatchdogThread ==
    /\ Watchdog
    /\ IF wd = "stop" THEN WatchdogSendsFrames ELSE SendNothing
    /\ UNCHANGED <<feedbackVars, motionVars, awake>>

----------------------------------------------------------------------------
(* The environment.  A callback that does not block takes no time: what    *)
(* happens outside meanwhile counts as before or after it.  Bound: one     *)
(* socket holds stop frames or reports.                                    *)

BetweenCallbacks == pc = "spin" \/ Blocked

Outside ==
    /\ BetweenCallbacks
    /\ \/ \E e \in PeerEvents : PeerStop(e)
       \/ \E s \in Sockets : \E frame \in FramesOf(s) : NoMail(s) /\ FrameArrives(s, frame)
       \/ \E s \in Reachable : ServiceComesOrGoes(s)
       \/ \E c \in Clients : ServeClearRequest(c)
    /\ UNCHANGED <<feedbackVars, motionVars, told, awake>>

(* A motor reports what it does; the receive buffer holds one report about *)
(* a motor, and a full buffer drops the newer one.                         *)
ReportArrives(m, report) ==
    /\ BetweenCallbacks
    /\ BusOf(m) \in openSockets
    /\ mail[m] = "none" /\ rx[BusOf(m)] = <<>>
    /\ m = watched => (report = "still" => ~turning) /\ (report = "turning" => turning)
    /\ mail' = [mail EXCEPT ![m] = report]
    /\ UNCHANGED <<vars, slowAge, errorAge, motionVars, told, awake>>

MotorStartsOrStops ==
    /\ BetweenCallbacks
    /\ turning' = ~turning
    /\ stoodAge' = 0
    /\ UNCHANGED <<vars, watched, feedbackVars, told, awake>>

Listening == enabled /\ ~Blocked
AwakeCap == StaleWindow + 2

(* Mutant: the age of a report grows without bound. *)
OlderReportsUnbounded(age) == [m \in Motors |-> age[m] + 1]

OlderReports(age) == [m \in Motors |-> IF age[m] < TooOld THEN age[m] + 1 ELSE TooOld]

TimePasses ==
    /\ Tick
    /\ slowAge' = OlderReports(slowAge)
    /\ errorAge' = OlderReports(errorAge)
    /\ stoodAge' = IF ~turning THEN 0 ELSE IF stoodAge < AwakeCap THEN stoodAge + 1 ELSE AwakeCap
    /\ awake' = IF ~Listening THEN 0 ELSE IF awake < AwakeCap THEN awake + 1 ELSE AwakeCap
    /\ told' = {}
    /\ UNCHANGED <<mail, watched, turning>>

----------------------------------------------------------------------------

VerificationInit ==
    /\ Init
    /\ mail = [m \in Motors |-> "none"]
    /\ slowAge = [m \in Motors |-> TooOld]
    /\ errorAge = [m \in Motors |-> TooOld]
    /\ watched \in Motors
    /\ turning = FALSE
    /\ stoodAge = 0
    /\ told = {}
    /\ awake = 0

VerificationNext ==
    \/ StopOrHold
    \/ \E m \in Motors : ReadReport(m)
    \/ PollEnds
    \/ EnablingOrDisabling
    \/ OtherCallbacks
    \/ WatchdogThread
    \/ Outside
    \/ \E m \in Motors : \E report \in Reports(m) : ReportArrives(m, report)
    \/ MotorStartsOrStops
    \/ TimePasses

VerificationSpec == VerificationInit /\ [][VerificationNext]_verificationVars

----------------------------------------------------------------------------
(* Properties. *)

(* The type of every variable this module adds. *)
VerificationTypeOK ==
    /\ TypeOK
    /\ mail \in [Motors -> {"none"} \cup SpeedReports \cup HeartbeatReports]
    /\ slowAge \in [Motors -> 0..TooOld] /\ errorAge \in [Motors -> 0..TooOld]
    /\ told \subseteq Motors
    /\ watched \in Motors /\ turning \in BOOLEAN /\ stoodAge \in 0..AwakeCap
    /\ awake \in 0..AwakeCap

PeriodServed == latched /\ enabled /\ pc = "spin" /\ ~timerDue

(* A confirmed stop is a real one: once the node has polled its sockets    *)
(* without a pause for a stale window, every motor (the watched one is     *)
(* any) has stood within the window and the period in which its report     *)
(* waited.  Before that a report may be as old as the pause: it is stamped *)
(* when it is read (checkDirectMotorStopFeedback, parseOdriveCanFrame).    *)
ConfirmedMeansStood ==
    PeriodServed /\ DirectStopEnabled /\ confirmed /\ awake > StaleWindow + 1
        => stoodAge <= StaleWindow + 1

(* The verdict "healthy" is honest: in every period that a latched node    *)
(* has served with it, every motor was sent its stop frame                 *)
(* (publishDirectMotorStopCommands, sendDirectMotorStopCommands).          *)
HealthyMeansTold ==
    PeriodServed /\ DirectStopEnabled /\ OdriveStopEnabled /\ SteadydriveStopEnabled
            /\ directHealthy
        => told = Motors

============================================================================
