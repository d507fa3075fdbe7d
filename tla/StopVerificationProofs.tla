----------------------- MODULE StopVerificationProofs -----------------------
(***************************************************************************)
(* Theorems about StopVerification, for any motors, any windows and every  *)
(* configuration of the node.  The theorems of SafetyController carry over *)
(* because every step is one of its steps.                                 *)
(***************************************************************************)
EXTENDS StopVerification, SafetyControllerProofs

(***************************************************************************)
(* The strengthening that makes the two verdicts inductive.                *)
(***************************************************************************)

(* The timer has been served: nothing of the period's work is left. *)
Served == pc \in {"spin", "find", "wait"} /\ ~timerDue

(* The socket of a motor is still to be polled in this period. *)
PollAhead(m) ==
    timerDue \/ pc = "button" \/ pc = "odrive" \/ (pc = "steadydrive" /\ BusOf(m) = "steadydrive")

MailNeedsSocket == \A m \in Motors : mail[m] # "none" => BusOf(m) \in openSockets

RestIsNow == ~turning => stoodAge = 0

DisabledIsPaused == ~enabled => awake = 0

(* A report that the watched motor stands is of this period, or of the     *)
(* last one and about to be read, unless the node has paused.              *)
MailIsRecent ==
    /\ mail[watched] # "request"
    /\ mail[watched] = "still" =>
          \/ stoodAge = 0 \/ awake = 0
          \/ PollAhead(watched) /\ (stoodAge <= 1 \/ awake <= 1)

(* A slow report is at most one period older than its stamp, unless the    *)
(* node has paused.                                                        *)
StampIsRecent ==
    slowAge[watched] <= StaleWindow =>
        stoodAge <= slowAge[watched] + 1 \/ awake <= slowAge[watched] + 1

(* The verdicts of a served period are about this period. *)
VerdictsAreNew ==
    Served /\ latched =>
        /\ DirectStopEnabled /\ confirmed => \A m \in Motors : slowAge[m] <= StaleWindow
        /\ DirectStopEnabled /\ OdriveStopEnabled /\ SteadydriveStopEnabled /\ directHealthy
               => told = Motors

(* Who speaks for the watched motor is the motor itself: no other node      *)
(* asks it for its encoder estimates, which only an ODrive can be asked.   *)
SpeaksForItself == "request" \notin OdriveReports \/ watched \notin Wheels

BusInv ==
    /\ MailNeedsSocket /\ RestIsNow /\ DisabledIsPaused
    /\ MailIsRecent /\ StampIsRecent

----------------------------------------------------------------------------
(* The controller below. *)

(* Every step is one of SafetyController, or leaves it alone.              *)
LEMMA VerificationStepBelow == [VerificationNext]_verificationVars => [Next]_vars
<1> SUFFICES ASSUME [VerificationNext]_verificationVars PROVE [Next]_vars
  OBVIOUS
<1>1. CASE StopOrHold
  BY <1>1 DEF StopOrHold, Next, Executor
<1>2. ASSUME NEW m \in Motors, ReadReport(m) PROVE UNCHANGED vars
  BY <1>2 DEF ReadReport
<1>3. CASE PollEnds
  BY <1>3 DEF PollEnds, Next, Executor
<1>4. CASE EnablingOrDisabling
  BY <1>4 DEF EnablingOrDisabling, Next, Executor
<1>5. CASE OtherCallbacks
  BY <1>5 DEF OtherCallbacks, Next, Executor
<1>6. CASE WatchdogThread
  BY <1>6 DEF WatchdogThread, Next
<1>7. CASE Outside
  BY <1>7 DEF Outside, Next, Environment
<1>8. ASSUME NEW m \in Motors, NEW report \in Reports(m), ReportArrives(m, report)
      PROVE  UNCHANGED vars
  BY <1>8 DEF ReportArrives
<1>9. CASE MotorStartsOrStops
  BY <1>9 DEF MotorStartsOrStops
<1>10. CASE TimePasses
  BY <1>10 DEF TimePasses, Next, Environment
<1>11. CASE UNCHANGED verificationVars
  BY <1>11 DEF verificationVars
<1> QED
  BY <1>1, <1>2, <1>3, <1>4, <1>5, <1>6, <1>7, <1>8, <1>9, <1>10, <1>11 DEF VerificationNext

(* So what holds of the controller holds on its bus.                       *)
THEOREM VerificationImplementsSafety == VerificationSpec => Spec
<1>1. VerificationInit => Init
  BY DEF VerificationInit
<1> QED
  BY <1>1, VerificationStepBelow, PTL DEF VerificationSpec, Spec

----------------------------------------------------------------------------
(* Types. *)

Frame == [kind : {"stop", "request"}, motor : Motors]

(* The frames for a sequence of motors are one for each. *)
LEMMA FramesToFacts ==
    ASSUME NEW kind \in {"stop", "request"}, NEW motors \in Seq(Motors), NEW flag \in BOOLEAN
    PROVE  /\ FramesTo(kind, motors, flag) \in Seq(Frame)
           /\ flag => /\ Len(FramesTo(kind, motors, flag)) = Len(motors)
                      /\ \A i \in 1..Len(motors) :
                            FramesTo(kind, motors, flag)[i] = [kind |-> kind, motor |-> motors[i]]
<1>1. CASE flag
  <2>1. FramesTo(kind, motors, flag) = [i \in 1..Len(motors) |-> [kind |-> kind, motor |-> motors[i]]]
    BY <1>1 DEF FramesTo
  <2>2. \A i \in 1..Len(motors) : [kind |-> kind, motor |-> motors[i]] \in Frame
    BY DEF Frame
  <2>3. Len(motors) \in Nat
    OBVIOUS
  <2> QED
    BY <2>1, <2>2, <2>3
<1>2. CASE ~flag
  BY <1>2 DEF FramesTo
<1> QED
  BY <1>1, <1>2

(* A concatenation has the elements of its parts. *)
LEMMA ConcatFacts ==
    ASSUME NEW s \in Seq(Frame), NEW t \in Seq(Frame)
    PROVE  /\ s \o t \in Seq(Frame)
           /\ \A i \in 1..Len(s) : i \in 1..Len(s \o t) /\ (s \o t)[i] = s[i]
           /\ \A i \in 1..Len(t) : Len(s) + i \in 1..Len(s \o t) /\ (s \o t)[Len(s) + i] = t[i]
  OBVIOUS

(* The frames of the stop go to motors, and to all of them when all leave. *)
LEMMA ChainFacts ==
    /\ Chain \in Seq(Frame)
    /\ DirectStopEnabled /\ OdriveStopEnabled /\ SteadydriveStopEnabled =>
          \A m \in Motors : \E i \in 1..Len(Chain) : Chain[i].kind = "stop" /\ Chain[i].motor = m
<1> DEFINE a == FramesTo("stop", OdriveNodes, OdriveStopEnabled)
           b == FramesTo("stop", SteadydriveMotors, SteadydriveStopEnabled)
           c == FramesTo("request", OdriveNodes, OdriveStopEnabled)
           d == FramesTo("request", SteadydriveMotors, SteadydriveStopEnabled)
<1>1. /\ OdriveNodes \in Seq(Motors) /\ SteadydriveMotors \in Seq(Motors)
      /\ Wheels = {OdriveNodes[i] : i \in 1..Len(OdriveNodes)}
      /\ Brushes = {SteadydriveMotors[i] : i \in 1..Len(SteadydriveMotors)}
  <2>1. OdriveNodes \in Seq(Wheels) /\ SteadydriveMotors \in Seq(Brushes)
    BY MotorsAssumption
  <2> QED
    BY <2>1 DEF Motors, Wheels, Brushes, Elements
<1>2. /\ DirectStopEnabled \in BOOLEAN /\ OdriveStopEnabled \in BOOLEAN
      /\ SteadydriveStopEnabled \in BOOLEAN
  BY FlagsAssumption DEF Flags
<1>3. a \in Seq(Frame) /\ b \in Seq(Frame) /\ c \in Seq(Frame) /\ d \in Seq(Frame)
  BY <1>1, <1>2, FramesToFacts
<1>4. DirectStopEnabled => Chain = (a \o b) \o (c \o d)
  BY DEF Chain, StopFrames, RequestFrames
<1>5. ASSUME OdriveStopEnabled, SteadydriveStopEnabled, NEW m \in Motors
      PROVE  \/ \E i \in 1..Len(a) : a[i].kind = "stop" /\ a[i].motor = m
             \/ \E i \in 1..Len(b) : b[i].kind = "stop" /\ b[i].motor = m
  <2>1. /\ Len(a) = Len(OdriveNodes)
        /\ \A i \in 1..Len(OdriveNodes) : a[i] = [kind |-> "stop", motor |-> OdriveNodes[i]]
    BY <1>1, <1>2, <1>5, FramesToFacts
  <2>2. /\ Len(b) = Len(SteadydriveMotors)
        /\ \A i \in 1..Len(SteadydriveMotors) :
              b[i] = [kind |-> "stop", motor |-> SteadydriveMotors[i]]
    BY <1>1, <1>2, <1>5, FramesToFacts
  <2> HIDE DEF a, b
  <2>3. CASE m \in Wheels
    <3>1. PICK i \in 1..Len(OdriveNodes) : m = OdriveNodes[i]
      BY <1>1, <2>3
    <3>2. i \in 1..Len(a) /\ a[i] = [kind |-> "stop", motor |-> m]
      BY <2>1, <3>1
    <3> QED
      BY <3>2
  <2>4. CASE m \in Brushes
    <3>1. PICK i \in 1..Len(SteadydriveMotors) : m = SteadydriveMotors[i]
      BY <1>1, <2>4
    <3>2. i \in 1..Len(b) /\ b[i] = [kind |-> "stop", motor |-> m]
      BY <2>2, <3>1
    <3> QED
      BY <3>2
  <2> QED
    BY <2>3, <2>4 DEF Motors
<1> HIDE DEF a, b, c, d
<1>6. Chain \in Seq(Frame)
  <2>1. a \o b \in Seq(Frame) /\ c \o d \in Seq(Frame)
    BY <1>3, ConcatFacts
  <2>2. (a \o b) \o (c \o d) \in Seq(Frame)
    BY <2>1, ConcatFacts
  <2>3. <<>> \in Seq(Frame)
    OBVIOUS
  <2> QED
    BY <1>4, <2>2, <2>3 DEF Chain
<1>7. ASSUME DirectStopEnabled, OdriveStopEnabled, SteadydriveStopEnabled, NEW m \in Motors
      PROVE  \E i \in 1..Len(Chain) : Chain[i].kind = "stop" /\ Chain[i].motor = m
  <2> DEFINE ab == a \o b
             cd == c \o d
  <2>1. ab \in Seq(Frame) /\ cd \in Seq(Frame)
    BY <1>3, ConcatFacts
  <2>2. \E i \in 1..Len(ab) : ab[i].kind = "stop" /\ ab[i].motor = m
    <3>1. CASE \E i \in 1..Len(a) : a[i].kind = "stop" /\ a[i].motor = m
      <4>1. PICK i \in 1..Len(a) : a[i].kind = "stop" /\ a[i].motor = m
        BY <3>1
      <4>2. i \in 1..Len(ab) /\ ab[i] = a[i]
        BY <1>3, ConcatFacts
      <4> QED
        BY <4>1, <4>2
    <3>2. CASE \E i \in 1..Len(b) : b[i].kind = "stop" /\ b[i].motor = m
      <4>1. PICK i \in 1..Len(b) : b[i].kind = "stop" /\ b[i].motor = m
        BY <3>2
      <4>2. Len(a) + i \in 1..Len(ab) /\ ab[Len(a) + i] = b[i]
        BY <1>3, ConcatFacts
      <4> QED
        BY <4>1, <4>2
    <3> QED
      BY <1>5, <1>7, <3>1, <3>2
  <2>3. Chain = ab \o cd
    BY <1>4, <1>7
  <2> HIDE DEF ab, cd
  <2> QED
    BY <2>1, <2>2, <2>3, ConcatFacts
<1> QED
  BY <1>6, <1>7

(* Whom the frames that left tell, and that a complete chain tells all.    *)
LEMMA SendFacts ==
    ASSUME told \subseteq Motors, NEW sent \in 0..Len(Chain), SendFrames(sent)
    PROVE  /\ told' \subseteq Motors /\ told \subseteq told'
           /\ HealthyAllSent(sent) /\ DirectStopEnabled /\ OdriveStopEnabled
                 /\ SteadydriveStopEnabled => told' = Motors
<1>1. Chain \in Seq(Frame) /\ Len(Chain) \in Nat
  BY ChainFacts
<1>2. \A i \in 1..sent : Chain[i].motor \in Motors
  <2>1. \A i \in 1..Len(Chain) : Chain[i] \in Frame
    BY <1>1
  <2> QED
    BY <1>1, <2>1 DEF Frame
<1>3. told' \subseteq Motors /\ told \subseteq told'
  BY <1>2 DEF SendFrames
<1>4. ASSUME HealthyAllSent(sent), DirectStopEnabled, OdriveStopEnabled,
             SteadydriveStopEnabled, NEW m \in Motors
      PROVE  m \in told'
  <2>1. PICK i \in 1..Len(Chain) : Chain[i].kind = "stop" /\ Chain[i].motor = m
    BY <1>4, ChainFacts
  <2>2. i \in {j \in 1..sent : Chain[j].kind = "stop"}
    BY <1>4, <2>1 DEF HealthyAllSent
  <2> QED
    BY <2>1, <2>2 DEF SendFrames
<1> QED
  BY <1>3, <1>4

(* Sending, on either thread, tells motors, and forgets none that was told. *)
LEMMA ToldFacts ==
    ASSUME told \subseteq Motors,
           SendNothing \/ WatchdogSendsFrames \/ SendDirectMotorStopCommands
    PROVE  told' \subseteq Motors /\ told \subseteq told'
  BY SendFacts DEF SendNothing, WatchdogSendsFrames, SendDirectMotorStopCommands

(* The initial state has the types. *)
LEMMA VerificationTypeInit == VerificationInit => VerificationTypeOK
<1> SUFFICES ASSUME VerificationInit PROVE VerificationTypeOK
  OBVIOUS
<1>1. TypeOK
  BY InitType DEF VerificationInit
<1>2. TooOld \in 0..TooOld /\ 0 \in 0..AwakeCap
  BY StaleAssumption DEF TooOld, AwakeCap
<1> QED
  BY <1>1, <1>2 DEF VerificationInit, VerificationTypeOK

(* No step breaks a type. *)
LEMMA VerificationTypeKept ==
    VerificationTypeOK /\ [VerificationNext]_verificationVars => VerificationTypeOK'
<1> SUFFICES ASSUME VerificationTypeOK, [VerificationNext]_verificationVars
             PROVE  VerificationTypeOK'
  OBVIOUS
<1> USE DEF VerificationTypeOK, feedbackVars, motionVars
<1>0. TypeOK'
  BY VerificationStepBelow, NextType
<1>1. CASE StopOrHold
  <2>1. SendNothing \/ SendDirectMotorStopCommands
    BY <1>1 DEF StopOrHold, SendIf
  <2>2. told' \subseteq Motors
    BY <2>1, ToldFacts
  <2> QED
    BY <1>0, <1>1, <2>2 DEF StopOrHold
<1>2. ASSUME NEW m \in Motors, ReadReport(m) PROVE VerificationTypeOK'
  <2>1. 0 \in 0..TooOld /\ TooOld \in 0..TooOld
    BY StaleAssumption DEF TooOld
  <2>2. slowAge' \in [Motors -> 0..TooOld] /\ errorAge' \in [Motors -> 0..TooOld]
    BY <1>2, <2>1 DEF ReadReport, ParseReport
  <2>3. mail' \in [Motors -> {"none"} \cup SpeedReports \cup HeartbeatReports]
    BY <1>2 DEF ReadReport
  <2> QED
    BY <1>0, <1>2, <2>2, <2>3 DEF ReadReport
<1>3. CASE PollEnds
  <2>1. mail' \in [Motors -> {"none"} \cup SpeedReports \cup HeartbeatReports]
    BY <1>3 DEF PollEnds
  <2> QED
    BY <1>0, <1>3, <2>1 DEF PollEnds
<1>4. CASE EnablingOrDisabling
  <2>1. 0 \in 0..AwakeCap
    BY StaleAssumption DEF AwakeCap
  <2> QED
    BY <1>0, <1>4, <2>1 DEF EnablingOrDisabling
<1>5. CASE OtherCallbacks \/ Outside
  BY <1>0, <1>5 DEF OtherCallbacks, Outside
<1>6. CASE WatchdogThread
  <2>1. told' \subseteq Motors
    BY <1>6, ToldFacts DEF WatchdogThread
  <2> QED
    BY <1>0, <1>6, <2>1 DEF WatchdogThread
<1>7. ASSUME NEW m \in Motors, NEW report \in Reports(m), ReportArrives(m, report)
      PROVE  VerificationTypeOK'
  <2>1. report \in {"none"} \cup SpeedReports \cup HeartbeatReports
    BY ReportsAssumption DEF Reports, SpeedReports
  <2>2. mail' \in [Motors -> {"none"} \cup SpeedReports \cup HeartbeatReports]
    BY <1>7, <2>1 DEF ReportArrives
  <2> QED
    BY <1>0, <1>7, <2>2 DEF ReportArrives
<1>8. CASE MotorStartsOrStops
  <2>1. 0 \in 0..AwakeCap
    BY StaleAssumption DEF AwakeCap
  <2> QED
    BY <1>0, <1>8, <2>1 DEF MotorStartsOrStops
<1>9. CASE TimePasses
  <2>1. slowAge' \in [Motors -> 0..TooOld] /\ errorAge' \in [Motors -> 0..TooOld]
    BY <1>9, StaleAssumption DEF TimePasses, OlderReports, TooOld
  <2>2. stoodAge' \in 0..AwakeCap /\ awake' \in 0..AwakeCap
    BY <1>9, StaleAssumption DEF TimePasses, AwakeCap
  <2> QED
    BY <1>0, <1>9, <2>1, <2>2 DEF TimePasses
<1>10. CASE UNCHANGED verificationVars
  BY <1>0, <1>10 DEF verificationVars
<1> QED
  BY <1>1, <1>2, <1>3, <1>4, <1>5, <1>6, <1>7, <1>8, <1>9, <1>10 DEF VerificationNext

(* Every variable keeps its type, for any motors, windows and flags.       *)
THEOREM VerificationTypeCorrect == VerificationSpec => []VerificationTypeOK
  BY VerificationTypeInit, VerificationTypeKept, PTL DEF VerificationSpec

----------------------------------------------------------------------------
(* The verdicts. *)

(* What the invariant of the bus rests on from the controller below: an    *)
(* idle node has no verdict, and only an enabled one is latched or polls.  *)
Below == /\ VerificationTypeOK /\ ExecutorInv
         /\ latched => enabled
         /\ ~latched => ~confirmed

(* A step that leaves the timer, the sockets and the reports alone keeps   *)
(* the invariant.                                                          *)
LEMMA BusCalm ==
    ASSUME BusInv,
           UNCHANGED <<pc, enabled, timerDue, openSockets, mail, slowAge, watched, turning,
                       stoodAge, awake>>
    PROVE  BusInv'
  BY DEF BusInv, MailNeedsSocket, RestIsNow, DisabledIsPaused, MailIsRecent, PollAhead,
     StampIsRecent

(* Sending decides the verdict "healthy". *)
LEMMA HealthyFacts ==
    ASSUME told \subseteq Motors, SendDirectMotorStopCommands
    PROVE  DirectStopEnabled /\ OdriveStopEnabled /\ SteadydriveStopEnabled /\ directHealthy'
              => told' = Motors
  BY SendFacts DEF SendDirectMotorStopCommands

(* The stop, in whichever callback it is raised or repeated. *)
LEMMA StopOrHoldKept == Below /\ BusInv /\ StopOrHold => BusInv'
<1> SUFFICES ASSUME Below, BusInv, StopOrHold PROVE BusInv'
  OBVIOUS
<1> USE DEF feedbackVars, motionVars, canVars, latchVars
<1>0. UNCHANGED <<feedbackVars, motionVars, awake>>
  BY DEF StopOrHold
<1>1. CASE OnStopMessage /\ SendIf(enabled)
  BY <1>0, <1>1, BusCalm DEF OnStopMessage
<1>2. ASSUME NEW s \in Sockets, ReadFrame(s) PROVE BusInv'
  BY <1>0, <1>2, BusCalm DEF ReadFrame, ParseButtonCanFrame, ParseMotorCanFrame
<1>3. CASE CheckButtonHeartbeatWatchdog
  BY <1>0, <1>3 DEF CheckButtonHeartbeatWatchdog, BusInv,
     MailNeedsSocket, RestIsNow, DisabledIsPaused, MailIsRecent, PollAhead, StampIsRecent
<1>4. CASE RepeatStop /\ SendIf(Holding) /\ (Holding => VerifyStop)
  BY <1>0, <1>4 DEF RepeatStop, BusInv, MailNeedsSocket, RestIsNow, DisabledIsPaused,
     MailIsRecent, PollAhead, StampIsRecent
<1> QED
  BY <1>1, <1>2, <1>3, <1>4 DEF StopOrHold

(* A report that is read, and the end of a poll. *)
LEMMA PollKept ==
    Below /\ BusInv /\ (PollEnds \/ \E m \in Motors : ReadReport(m)) => BusInv'
<1> SUFFICES ASSUME Below, BusInv, PollEnds \/ \E m \in Motors : ReadReport(m) PROVE BusInv'
  OBVIOUS
<1> USE DEF motionVars, latchVars, canVars
<1>0. /\ watched \in Motors /\ mail \in [Motors -> {"none"} \cup SpeedReports \cup HeartbeatReports]
      /\ slowAge \in [Motors -> 0..TooOld] /\ stoodAge \in Nat /\ awake \in Nat
      /\ StaleWindow \in Nat
      /\ \A m \in Motors : BusOf(m) \in {"odrive", "steadydrive"}
  BY StaleAssumption DEF Below, VerificationTypeOK, AwakeCap, BusOf
<1>1. ASSUME NEW m \in Motors, ReadReport(m) PROVE BusInv'
  <2>1. ~Served /\ UNCHANGED vars /\ mail' = [mail EXCEPT ![m] = "none"]
        /\ UNCHANGED <<watched, turning, stoodAge, told, awake>>
    BY <1>0, <1>1 DEF ReadReport, Served
  <2>2. MailNeedsSocket' /\ RestIsNow' /\ DisabledIsPaused'
    BY <1>0, <2>1 DEF vars, BusInv, MailNeedsSocket, RestIsNow, DisabledIsPaused
  <2>3. MailIsRecent'
    BY <1>0, <2>1 DEF vars, BusInv, MailIsRecent, PollAhead
  <2>4. StampIsRecent'
    <3>1. CASE m = watched
      <4>1. mail[m] # "request"
        BY <3>1 DEF BusInv, MailIsRecent
      <4>2. CASE mail[m] = "still"
        <5>1. stoodAge <= 1 \/ awake <= 1
          BY <1>0, <3>1, <4>2 DEF BusInv, MailIsRecent
        <5>2. slowAge'[watched] = 0
          BY <1>0, <1>1, <3>1, <4>2 DEF ReadReport, ParseReport
        <5> QED
          BY <2>1, <5>1, <5>2 DEF StampIsRecent
      <4>3. CASE mail[m] = "turning"
        <5>1. slowAge'[watched] = TooOld
          BY <1>0, <1>1, <3>1, <4>3 DEF ReadReport, ParseReport
        <5> QED
          BY <1>0, <2>1, <5>1 DEF StampIsRecent, TooOld
      <4>4. CASE mail[m] \notin {"still", "turning"}
        <5>1. slowAge' = slowAge
          BY <1>1, <4>1, <4>4 DEF ReadReport, ParseReport
        <5> QED
          BY <2>1, <5>1 DEF BusInv, StampIsRecent
      <4> QED
        BY <4>2, <4>3, <4>4
    <3>2. CASE m # watched
      <4>1. slowAge'[watched] = slowAge[watched]
        BY <1>0, <1>1, <3>2 DEF ReadReport, ParseReport
      <4> QED
        BY <2>1, <4>1 DEF BusInv, StampIsRecent
    <3> QED
      BY <3>1, <3>2
  <2> QED
    BY <2>2, <2>3, <2>4 DEF BusInv
<1>2. ASSUME NEW s \in Sockets, UNCHANGED <<slowAge, motionVars, told, awake>>,
             \/ EndPoll(s) /\ (s \in openSockets => NoMail(s)) /\ UNCHANGED mail
             \/ ReadFails(s) /\ mail' = [m \in Motors |-> IF BusOf(m) = s THEN "none" ELSE mail[m]]
      PROVE  BusInv'
  <2>1. /\ pc = s /\ pc' = Successor[s] /\ UNCHANGED <<enabled, timerDue>>
        /\ pc' = CASE s = "button" -> "odrive" [] s = "odrive" -> "steadydrive"
                   [] s = "steadydrive" -> "heartbeat"
    BY <1>2 DEF EndPoll, ReadFails, Successor, Sockets
  <2>2. \A m \in Motors : mail'[m] = IF BusOf(m) = s THEN "none" ELSE mail[m]
    BY <1>0, <1>2 DEF BusInv, MailNeedsSocket, NoMail
  <2>3. MailNeedsSocket'
    BY <1>2, <2>2 DEF BusInv, MailNeedsSocket, EndPoll, ReadFails, BusOf
  <2>4. MailIsRecent'
    BY <1>0, <1>2, <2>1, <2>2 DEF BusInv, MailIsRecent, PollAhead, BusOf, Sockets
  <2> QED
    BY <1>2, <2>1, <2>3, <2>4 DEF BusInv, RestIsNow, DisabledIsPaused, StampIsRecent
<1> QED
  BY <1>1, <1>2 DEF PollEnds

(* The executor's other steps: enabling, the timer, the sockets, the reset. *)
LEMMA CallbacksKept ==
    Below /\ BusInv /\ (EnablingOrDisabling \/ OtherCallbacks) => BusInv'
<1> SUFFICES ASSUME Below, BusInv, EnablingOrDisabling \/ OtherCallbacks PROVE BusInv'
  OBVIOUS
<1> USE DEF feedbackVars, motionVars, latchVars, canVars
<1>0. /\ StaleWindow \in Nat /\ slowAge[watched] \in Nat /\ awake \in Nat
      /\ (latched => enabled)
  BY StaleAssumption DEF Below, VerificationTypeOK, TooOld, AwakeCap
<1>1. CASE EnablingOrDisabling
  <2>1. awake' = 0 /\ UNCHANGED <<feedbackVars, motionVars, pc, timerDue, openSockets>>
    BY <1>1 DEF EnablingOrDisabling, EnableController
  <2> QED
    BY <1>0, <2>1 DEF BusInv, MailNeedsSocket, RestIsNow, DisabledIsPaused, MailIsRecent,
       PollAhead, StampIsRecent
<1>2. ASSUME OtherCallbacks PROVE UNCHANGED <<feedbackVars, motionVars, awake>>
  BY <1>2 DEF OtherCallbacks
<1>3. ASSUME OtherCallbacks, NEW c \in Clients, TakeResponse(c) PROVE BusInv'
  BY <1>2, <1>3, BusCalm DEF TakeResponse
<1>4. ASSUME OtherCallbacks, OnPublishTimer PROVE BusInv'
  <2>1. /\ timerDue /\ UNCHANGED <<enabled, openSockets>>
        /\ pc' = IF enabled THEN "button" ELSE "spin"
    BY <1>4 DEF OnPublishTimer
  <2>2. MailIsRecent'
    BY <1>2, <1>4, <2>1 DEF BusInv, DisabledIsPaused, MailIsRecent, PollAhead
  <2> QED
    BY <1>2, <1>4, <2>1, <2>2 DEF BusInv, MailNeedsSocket, RestIsNow, DisabledIsPaused,
       StampIsRecent
<1>5. ASSUME OtherCallbacks, NEW s \in Sockets, OpenSocket(s) PROVE BusInv'
  BY <1>2, <1>5 DEF OpenSocket, BusInv, MailNeedsSocket, RestIsNow, DisabledIsPaused,
     MailIsRecent, PollAhead, StampIsRecent
<1>6. ASSUME OtherCallbacks, ResetLatchedStop \/ SendClearRequest \/ ServiceNotReady \/ AwaitResponse
      PROVE  BusInv'
  <2>1. /\ pc \in {"spin", "find", "wait"} /\ pc' \in {"spin", "find", "wait"}
        /\ UNCHANGED <<enabled, timerDue, openSockets>>
    BY <1>6 DEF ResetLatchedStop, SendClearRequest, ServiceNotReady, AwaitResponse, NextClient
  <2> QED
    BY <1>2, <1>6, <2>1 DEF BusInv, MailNeedsSocket, RestIsNow, DisabledIsPaused,
       MailIsRecent, PollAhead, StampIsRecent
<1> QED
  BY <1>1, <1>3, <1>4, <1>5, <1>6 DEF OtherCallbacks

(* The watchdog thread neither polls nor reads.                            *)
LEMMA WatchdogThreadKept == Below /\ BusInv /\ WatchdogThread => BusInv'
<1> SUFFICES ASSUME Below, BusInv, WatchdogThread PROVE BusInv'
  OBVIOUS
<1>1. /\ UNCHANGED <<pc, enabled, timerDue, openSockets>>
      /\ UNCHANGED <<feedbackVars, motionVars, awake>>
  BY DEF WatchdogThread, Watchdog, WatchdogWake, WatchdogExchange, WatchdogPublishZero,
     WatchdogPublishStop, canVars
<1> QED
  BY <1>1, BusCalm DEF feedbackVars, motionVars

(* What happens outside while no callback runs, without other nodes' RTRs  *)
(* to the watched motor.                                                   *)
LEMMA EnvironmentKept ==
    ASSUME SpeaksForItself, Below, BusInv,
           \/ Outside \/ MotorStartsOrStops \/ TimePasses
           \/ \E m \in Motors : \E report \in Reports(m) : ReportArrives(m, report)
    PROVE  BusInv'
<1> USE DEF feedbackVars, motionVars, latchVars, canVars, BusInv
<1>0. /\ watched \in Motors /\ mail \in [Motors -> {"none"} \cup SpeedReports \cup HeartbeatReports]
      /\ slowAge \in [Motors -> 0..TooOld] /\ stoodAge \in Nat /\ awake \in Nat
      /\ StaleWindow \in Nat /\ TooOld = StaleWindow + 1
  BY StaleAssumption DEF Below, VerificationTypeOK, AwakeCap, TooOld
<1>1. CASE Outside
  <2>1. /\ UNCHANGED <<pc, enabled, timerDue, openSockets>>
        /\ UNCHANGED <<feedbackVars, motionVars, awake>>
    BY <1>1 DEF Outside, PeerStop, FrameArrives, ServiceComesOrGoes, ServeClearRequest
  <2> QED
    BY <2>1, BusCalm
<1>2. ASSUME NEW m \in Motors, NEW report \in Reports(m), ReportArrives(m, report) PROVE BusInv'
  <2>1. /\ UNCHANGED vars /\ UNCHANGED <<slowAge, motionVars, told, awake>>
        /\ BusOf(m) \in openSockets
        /\ mail' = [mail EXCEPT ![m] = report]
        /\ m = watched /\ report = "still" => ~turning
    BY <1>2 DEF ReportArrives
  <2>2. m = watched => report # "request"
    BY <1>0 DEF Reports, SpeaksForItself
  <2>3. MailIsRecent'
    BY <1>0, <2>1, <2>2 DEF vars, RestIsNow, MailIsRecent, PollAhead
  <2> QED
    BY <1>0, <2>1, <2>3 DEF vars, MailNeedsSocket, RestIsNow, DisabledIsPaused, StampIsRecent
<1>3. CASE MotorStartsOrStops
  BY <1>0, <1>3 DEF MotorStartsOrStops, vars, MailNeedsSocket, RestIsNow, DisabledIsPaused,
     MailIsRecent, PollAhead, StampIsRecent
<1>4. CASE TimePasses
  <2>1. /\ (pc = "spin" /\ ~timerDue) \/ Blocked
        /\ timerDue' = TRUE
        /\ UNCHANGED <<pc, enabled, openSockets, mail, watched, turning>>
    BY <1>4 DEF TimePasses, Tick
  <2>2. /\ stoodAge' <= stoodAge + 1 /\ awake' <= awake + 1
        /\ (~turning => stoodAge' = 0) /\ (~Listening => awake' = 0)
    BY <1>0, <1>4 DEF TimePasses, AwakeCap
  <2>3. stoodAge' \in Nat /\ awake' \in Nat
    BY <1>0, <1>4 DEF TimePasses, AwakeCap
  <2>4. MailNeedsSocket' /\ RestIsNow' /\ DisabledIsPaused'
    BY <2>1, <2>2 DEF MailNeedsSocket, RestIsNow, DisabledIsPaused, Listening
  <2>5. MailIsRecent'
    BY <1>0, <2>1, <2>2, <2>3 DEF MailIsRecent, PollAhead, Blocked, Listening
  <2>6. StampIsRecent'
    <3>1. slowAge'[watched] = IF slowAge[watched] < TooOld THEN slowAge[watched] + 1 ELSE TooOld
      BY <1>0, <1>4 DEF TimePasses, OlderReports
    <3> QED
      BY <1>0, <2>1, <2>2, <2>3, <3>1 DEF StampIsRecent
  <2> QED
    BY <2>4, <2>5, <2>6
<1> QED
  BY <1>1, <1>2, <1>3, <1>4

(* Initially every report is too old and every motor stands.               *)
LEMMA BusInit == VerificationInit => BusInv
  BY StaleAssumption DEF VerificationInit, Init, BusInv, MailNeedsSocket, RestIsNow,
     DisabledIsPaused, MailIsRecent, StampIsRecent, TooOld

(* No step of the node on its bus breaks the invariant.                    *)
LEMMA BusStep ==
    SpeaksForItself /\ Below /\ BusInv /\ [VerificationNext]_verificationVars => BusInv'
<1> SUFFICES ASSUME SpeaksForItself, Below, BusInv, [VerificationNext]_verificationVars
             PROVE  BusInv'
  OBVIOUS
<1>1. CASE UNCHANGED verificationVars
  BY <1>1 DEF verificationVars, vars, feedbackVars, motionVars, latchVars, canVars, BusInv,
     MailNeedsSocket, RestIsNow, DisabledIsPaused, MailIsRecent, PollAhead, StampIsRecent
<1> QED
  BY <1>1, StopOrHoldKept, PollKept, CallbacksKept, WatchdogThreadKept, EnvironmentKept
     DEF VerificationNext

(* No step makes a verdict of an old one, whoever asks the ODrives for what. *)
LEMMA VerdictsKept ==
    Below /\ VerdictsAreNew /\ [VerificationNext]_verificationVars => VerdictsAreNew'
<1> SUFFICES ASSUME Below, VerdictsAreNew, [VerificationNext]_verificationVars
             PROVE  VerdictsAreNew'
  OBVIOUS
<1> USE DEF feedbackVars, motionVars, latchVars, canVars
<1>0. told \subseteq Motors /\ (latched => enabled)
  BY DEF Below, VerificationTypeOK
<1>1. CASE StopOrHold
  <2>0. UNCHANGED slowAge
    BY <1>1 DEF StopOrHold
  <2>1. CASE OnStopMessage /\ SendIf(enabled)
    BY <1>0, <2>0, <2>1, HealthyFacts DEF OnStopMessage, SendIf, LatchStop, VerdictsAreNew, Served
  <2>2. ASSUME NEW s \in Sockets, ReadFrame(s) PROVE VerdictsAreNew'
    BY <2>2 DEF ReadFrame, VerdictsAreNew, Served, Sockets
  <2>3. CASE CheckButtonHeartbeatWatchdog
    BY <2>3 DEF CheckButtonHeartbeatWatchdog, VerdictsAreNew, Served
  <2>4. CASE RepeatStop /\ SendIf(Holding) /\ (Holding => VerifyStop)
    <3>1. CASE Holding
      BY <1>0, <2>0, <2>4, <3>1, HealthyFacts
         DEF RepeatStop, SendIf, VerifyStop, Verified, VerdictsAreNew
    <3>2. CASE ~Holding
      BY <1>0, <2>4, <3>2 DEF RepeatStop, Holding, VerdictsAreNew
    <3> QED
      BY <3>1, <3>2
  <2> QED
    BY <1>1, <2>1, <2>2, <2>3, <2>4 DEF StopOrHold
<1>2. ASSUME NEW m \in Motors, ReadReport(m) PROVE VerdictsAreNew'
  <2>1. pc \in {"odrive", "steadydrive"} /\ pc' = pc
    BY <1>2 DEF ReadReport, BusOf, vars
  <2> QED
    BY <2>1 DEF VerdictsAreNew, Served
<1>3. CASE PollEnds
  <2>1. PICK s \in Sockets : EndPoll(s) \/ ReadFails(s)
    BY <1>3 DEF PollEnds
  <2>2. pc' = Successor[s]
    BY <2>1 DEF EndPoll, ReadFails
  <2>3. ~Served'
    BY <2>2 DEF Successor, Sockets, Served
  <2> QED
    BY <2>3 DEF VerdictsAreNew
<1>4. CASE EnablingOrDisabling
  <2>1. PICK data \in BOOLEAN : EnableController(data)
    BY <1>4 DEF EnablingOrDisabling
  <2>2. UNCHANGED <<slowAge, told, pc, timerDue>>
    BY <1>4, <2>1 DEF EnablingOrDisabling, EnableController
  <2>3. CASE data
    <3>1. UNCHANGED latchVars
      BY <2>1, <2>3 DEF EnableController
    <3> QED
      BY <2>2, <3>1 DEF VerdictsAreNew, Served
  <2>4. CASE ~data
    BY <2>1, <2>4 DEF EnableController, ClearLatchedStop, VerdictsAreNew, Served
  <2> QED
    BY <2>3, <2>4
<1>5. CASE OtherCallbacks
  <2>0. UNCHANGED <<slowAge, told>>
    BY <1>5 DEF OtherCallbacks
  <2>1. ASSUME NEW c \in Clients, TakeResponse(c) PROVE VerdictsAreNew'
    BY <2>0, <2>1 DEF TakeResponse, VerdictsAreNew, Served
  <2>2. CASE OnPublishTimer
    BY <1>0, <2>0, <2>2 DEF OnPublishTimer, VerdictsAreNew, Served
  <2>3. ASSUME NEW s \in Sockets, OpenSocket(s) PROVE VerdictsAreNew'
    BY <2>3 DEF OpenSocket, VerdictsAreNew, Served, Sockets
  <2>4. CASE ResetLatchedStop \/ SendClearRequest \/ ServiceNotReady \/ AwaitResponse
    <3>1. pc \in {"spin", "find", "wait"} /\ UNCHANGED timerDue
          /\ (ClearLatchedStop \/ UNCHANGED latchVars)
      BY <2>4 DEF ResetLatchedStop, SendClearRequest, ServiceNotReady, AwaitResponse, NextClient
    <3> QED
      BY <2>0, <3>1 DEF ClearLatchedStop, VerdictsAreNew, Served
  <2> QED
    BY <1>5, <2>1, <2>2, <2>3, <2>4 DEF OtherCallbacks
<1>6. CASE WatchdogThread
  <2>1. UNCHANGED <<pc, latched, directHealthy, confirmed, timerDue, slowAge>>
    BY <1>6 DEF WatchdogThread, Watchdog, WatchdogWake, WatchdogExchange, WatchdogPublishZero,
       WatchdogPublishStop
  <2>2. told' \subseteq Motors /\ told \subseteq told'
    BY <1>0, <1>6, ToldFacts DEF WatchdogThread
  <2> QED
    BY <2>1, <2>2 DEF VerdictsAreNew, Served
<1>7. CASE Outside
  <2>1. UNCHANGED <<pc, latchVars, timerDue, slowAge, told>>
    BY <1>7 DEF Outside, PeerStop, FrameArrives, ServiceComesOrGoes, ServeClearRequest
  <2> QED
    BY <2>1 DEF VerdictsAreNew, Served
<1>8. ASSUME NEW m \in Motors, NEW report \in Reports(m), ReportArrives(m, report)
      PROVE  VerdictsAreNew'
  BY <1>8 DEF ReportArrives, vars, VerdictsAreNew, Served
<1>9. CASE MotorStartsOrStops
  BY <1>9 DEF MotorStartsOrStops, vars, VerdictsAreNew, Served
<1>10. CASE TimePasses
  BY <1>10 DEF TimePasses, Tick, VerdictsAreNew, Served
<1>11. CASE UNCHANGED verificationVars
  BY <1>11 DEF verificationVars, vars, VerdictsAreNew, Served
<1> QED
  BY <1>1, <1>2, <1>3, <1>4, <1>5, <1>6, <1>7, <1>8, <1>9, <1>10, <1>11 DEF VerificationNext

(* The state of the controller below is one that its own theorems allow.   *)
LEMMA BelowInvariant == VerificationSpec => []Below
<1>1. VerificationTypeOK /\ ExecutorInv /\ LatchHasItsCause /\ IdleForgetsEpisode => Below
  BY DEF Below, LatchHasItsCause, IdleForgetsEpisode
<1> QED
  BY <1>1, VerificationTypeCorrect, VerificationImplementsSafety, ExecutorInvariant,
     EpisodeIsSound, PTL

(* One motor is watched throughout.                                        *)
LEMMA SameWatched == [VerificationNext]_verificationVars => watched' = watched
  BY DEF VerificationNext, StopOrHold, ReadReport, PollEnds, EnablingOrDisabling, OtherCallbacks,
     WatchdogThread, Outside, ReportArrives, MotorStartsOrStops, TimePasses, verificationVars,
     motionVars

(* The invariant of the bus, for every configuration of the node.          *)
LEMMA BusInvariant == VerificationSpec => [](SpeaksForItself => BusInv)
<1>1. /\ (SpeaksForItself => BusInv) /\ Below /\ [VerificationNext]_verificationVars
      => (SpeaksForItself => BusInv)'
  BY BusStep, SameWatched DEF SpeaksForItself
<1> QED
  BY <1>1, BusInit, BelowInvariant, PTL DEF VerificationSpec

(* The verdicts of a served period are about it, for every configuration.  *)
LEMMA VerdictsInvariant == VerificationSpec => []VerdictsAreNew
<1>1. VerificationInit => VerdictsAreNew
  BY DEF VerificationInit, Init, VerdictsAreNew
<1> QED
  BY <1>1, VerdictsKept, BelowInvariant, PTL DEF VerificationSpec

(* What the verdict "confirmed" of a served period says of a motor that    *)
(* speaks for itself.                                                      *)
LEMMA ConfirmedSpeaker == VerificationSpec => [](SpeaksForItself => ConfirmedMeansStood)
<1>1. Below /\ BusInv /\ VerdictsAreNew => ConfirmedMeansStood
  <2> SUFFICES ASSUME Below, BusInv, VerdictsAreNew, PeriodServed, DirectStopEnabled, confirmed,
                      awake > StaleWindow + 1
               PROVE  stoodAge <= StaleWindow + 1
    BY DEF ConfirmedMeansStood
  <2>1. /\ StaleWindow \in Nat /\ watched \in Motors
        /\ slowAge[watched] \in 0..TooOld /\ stoodAge \in Nat /\ awake \in Nat
    BY StaleAssumption DEF Below, VerificationTypeOK, AwakeCap
  <2>2. slowAge[watched] <= StaleWindow
    BY <2>1 DEF VerdictsAreNew, Served, PeriodServed
  <2> QED
    BY <2>1, <2>2 DEF BusInv, StampIsRecent, TooOld
<1> QED
  BY <1>1, BelowInvariant, BusInvariant, VerdictsInvariant, PTL

(* A confirmed stop is a real one, as long as no other node asks an ODrive *)
(* for its encoder estimates: that request would be read as an answer      *)
(* (parseOdriveCanFrame, checkDirectMotorStopFeedback).                    *)
THEOREM ConfirmedIsReal ==
    ASSUME "request" \notin OdriveReports
    PROVE  VerificationSpec => []ConfirmedMeansStood
<1>1. SpeaksForItself
  BY DEF SpeaksForItself
<1> QED
  BY <1>1, ConfirmedSpeaker, PTL

(* A confirmed stop is a real one for the brushes whatever other nodes ask *)
(* for, because a request to a Steadydrive is told from its answer         *)
(* (parseSteadydriveCanFrame, allZeroPayloadExceptCommand).                *)
THEOREM ConfirmedBrushesStand ==
    VerificationSpec => [](watched \notin Wheels => ConfirmedMeansStood)
<1>1. (SpeaksForItself => ConfirmedMeansStood) => (watched \notin Wheels => ConfirmedMeansStood)
  BY DEF SpeaksForItself
<1> QED
  BY <1>1, ConfirmedSpeaker, PTL

(* A node that reports the direct stop healthy has told every motor in     *)
(* this period (sendDirectMotorStopCommands).                              *)
THEOREM HealthyIsHonest == VerificationSpec => []HealthyMeansTold
<1>1. VerdictsAreNew => HealthyMeansTold
  BY DEF VerdictsAreNew, Served, PeriodServed, HealthyMeansTold
<1> QED
  BY <1>1, VerdictsInvariant, PTL

(* On its bus, too, a released latch leaves no verdict behind              *)
(* (clearLatchedStop).                                                     *)
THEOREM VerdictsForgotten == VerificationSpec => []IdleForgetsEpisode
  BY VerificationImplementsSafety, IdleEpisodesForgotten, PTL

=============================
