----------------------- MODULE SafetyControllerProofs -----------------------
(***************************************************************************)
(* What the safety controller guarantees for every configuration: proofs   *)
(* about SafetyController, for all queue depths, timeouts, sets of stops   *)
(* and combinations of the feature parameters.                             *)
(***************************************************************************)
EXTENDS SafetyController, TLAPS

USE DEF Sockets, ButtonFrames, Clients, Blocked

(* A stop that joins the keep-last queue leaves a queue of stops that is   *)
(* not longer than its depth and not empty.                                *)
LEMMA EnqueueType ==
    ASSUME NEW q \in Seq(Events), Len(q) <= QueueDepth, NEW e \in Events
    PROVE  /\ Enqueue(q, e) \in Seq(Events)
           /\ Len(Enqueue(q, e)) <= QueueDepth
           /\ Enqueue(q, e) # <<>>
<1>1. CASE Len(q) < QueueDepth
  BY <1>1, BoundsAssumption DEF Enqueue
<1>2. CASE ~(Len(q) < QueueDepth)
  <2>1. Len(q) = QueueDepth /\ q # <<>>
    BY <1>2, BoundsAssumption
  <2>2. Tail(q) \in Seq(Events) /\ Len(Tail(q)) = Len(q) - 1
    BY <2>1
  <2> QED BY <1>2, <2>1, <2>2, BoundsAssumption DEF Enqueue
<1> QED BY <1>1, <1>2

(* latchStop keeps every variable it writes within its type. *)
LEMMA LatchStopType ==
    ASSUME TypeOK, NEW e \in Events, LatchStop(e)
    PROVE  /\ latched' = TRUE
           /\ events' \in Seq(Events)
           /\ active' \in Events \cup {NoEvent}
           /\ missionRequested' \in BOOLEAN
           /\ fsmRequested' \in BOOLEAN
           /\ directHealthy' \in BOOLEAN
           /\ confirmed' \in BOOLEAN
           /\ zeroAge' \in 0..AgeCap
           /\ watchdogPublished' \in BOOLEAN
<1>1. latched' = TRUE /\ events' \in Seq(Events) /\ active' \in Events \cup {NoEvent}
  BY DEF LatchStop, RecordEvent, TypeOK
<1>2. directHealthy' \in BOOLEAN
  BY FlagsAssumption DEF LatchStop, PublishDirectMotorStopCommands
<1>3. zeroAge' \in 0..AgeCap
  BY TimesAssumption DEF LatchStop, PublishZeroCommands
<1>4. /\ missionRequested' \in BOOLEAN /\ fsmRequested' \in BOOLEAN
      /\ confirmed' \in BOOLEAN /\ watchdogPublished' \in BOOLEAN
  BY DEF LatchStop, RequestMissionStop, RequestFsmFaultState
<1> QED BY <1>1, <1>2, <1>3, <1>4

(* publishInternalStopEvent also keeps the queue within its type. *)
LEMMA InternalStopType ==
    ASSUME TypeOK, NEW e \in Events, PublishInternalStopEvent(e)
    PROVE  /\ stopQueue' \in Seq(Events) /\ Len(stopQueue') <= QueueDepth
           /\ stopQueue' # <<>>
           /\ LatchStop(e)
BY EnqueueType DEF PublishInternalStopEvent, TypeOK

(* clearLatchedStop keeps every variable it writes within its type. *)
LEMMA ClearType ==
    ASSUME TypeOK, ClearLatchedStop
    PROVE  /\ latched' = FALSE
           /\ events' = <<>> /\ events' \in Seq(Events)
           /\ active' = NoEvent
           /\ missionRequested' = FALSE /\ fsmRequested' = FALSE
           /\ directHealthy' = TRUE /\ confirmed' = FALSE
           /\ zeroAge' \in 0..AgeCap /\ zeroAge' = zeroAge
           /\ watchdogPublished' = FALSE
BY DEF ClearLatchedStop, TypeOK

(* The values that timers and clocks are set to are within their ranges. *)
LEMMA TimesType ==
    /\ 0 \in 0..AgeCap /\ AgeCap \in 0..AgeCap
    /\ WatchdogPeriod \in 0..WatchdogPeriod
    /\ ServiceWait \in Nat /\ ResponseWait \in Nat /\ 0 \in Nat
    /\ 0 \in 0..ClearClients
BY TimesAssumption, BoundsAssumption

(* The members of the node start well-typed.                               *)
LEMMA InitType == Init => TypeOK
<1> SUFFICES ASSUME Init PROVE TypeOK
  OBVIOUS
<1>1. events \in Seq(Events) /\ stopQueue \in Seq(Events) /\ Len(stopQueue) <= QueueDepth
  BY BoundsAssumption DEF Init
<1>2. /\ rx \in [Sockets -> Seq(ButtonFrames \cup {"stop"})]
      /\ \A s \in Sockets : rx[s] \in Seq(FramesOf(s))
      /\ reply \in [Clients -> {"none", "ok", "refused"}]
  BY DEF Init
<1> QED BY <1>1, <1>2, TimesType DEF Init, TypeOK

(* An age that grows stays below its cap.                                  *)
LEMMA OlderType == \A age \in 0..AgeCap : Older(age) \in 0..AgeCap
BY TimesAssumption DEF Older

(* Every step keeps the state well-typed. *)
LEMMA NextType == TypeOK /\ [Next]_vars => TypeOK'
<1> SUFFICES ASSUME TypeOK, [Next]_vars PROVE TypeOK'
  OBVIOUS
<1> USE DEF latchVars, canVars, resetVars, wdVars
<1>1. CASE OnStopMessage
  <2>1. Head(stopQueue) \in Events /\ stopQueue' \in Seq(Events) /\ Len(stopQueue') <= QueueDepth
    <3>1. stopQueue \in Seq(Events) /\ stopQueue # <<>> /\ Len(stopQueue) <= QueueDepth
      BY <1>1 DEF OnStopMessage, TypeOK
    <3>2. Head(stopQueue) \in Events /\ Tail(stopQueue) \in Seq(Events)
          /\ Len(Tail(stopQueue)) <= QueueDepth
      BY <3>1, BoundsAssumption
    <3> QED BY <1>1, <3>2 DEF OnStopMessage
  <2>2. CASE enabled
    <3>1. LatchStop(Head(stopQueue))
      BY <1>1, <2>2 DEF OnStopMessage
    <3>2. progressAge' \in 0..AgeCap
      BY <1>1, TimesType DEF OnStopMessage, NoteProgress
    <3>3. /\ latched' = TRUE /\ events' \in Seq(Events) /\ active' \in Events \cup {NoEvent}
          /\ missionRequested' \in BOOLEAN /\ fsmRequested' \in BOOLEAN
          /\ directHealthy' \in BOOLEAN /\ confirmed' \in BOOLEAN
          /\ zeroAge' \in 0..AgeCap /\ watchdogPublished' \in BOOLEAN
      BY <2>1, <3>1, LatchStopType
    <3> QED BY <1>1, <2>1, <3>2, <3>3 DEF OnStopMessage, TypeOK
  <2>3. CASE ~enabled
    BY <1>1, <2>1, <2>3, TimesType DEF OnStopMessage, NoteProgress, TypeOK
  <2> QED BY <2>2, <2>3
<1>2. ASSUME NEW data \in BOOLEAN, EnableController(data) PROVE TypeOK'
  <2>1. CASE data
    BY <1>2, <2>1, TimesType DEF EnableController, NoteProgress, TypeOK
  <2>2. CASE ~data
    BY <1>2, <2>2, ClearType, TimesType DEF EnableController, NoteProgress, TypeOK
  <2> QED BY <2>1, <2>2
<1>3. ASSUME NEW c \in Clients, TakeResponse(c) PROVE TypeOK'
  BY <1>3 DEF TakeResponse, TypeOK
<1>4. CASE OnPublishTimer
  <2>1. pc' \in {"button", "spin"} /\ timerDue' \in BOOLEAN /\ progressAge' \in 0..AgeCap
    BY <1>4, TimesType DEF OnPublishTimer, NoteProgress
  <2> QED BY <1>4, <2>1 DEF OnPublishTimer, TypeOK
<1>5. ASSUME NEW s \in Sockets, EndPoll(s) PROVE TypeOK'
  BY <1>5 DEF EndPoll, Successor, TypeOK
<1>6. ASSUME NEW s \in Sockets, OpenSocket(s) PROVE TypeOK'
  BY <1>6 DEF OpenSocket, TypeOK
<1>7. ASSUME NEW s \in Sockets, ReadFails(s) PROVE TypeOK'
  BY <1>7 DEF ReadFails, Successor, TypeOK
<1>8. ASSUME NEW s \in Sockets, ReadFrame(s) PROVE TypeOK'
  <2>0. Head(rx[s]) \in FramesOf(s) /\ Tail(rx[s]) \in Seq(FramesOf(s))
    BY <1>8 DEF ReadFrame, TypeOK
  <2>1. /\ rx' \in [Sockets -> Seq(ButtonFrames \cup {"stop"})]
        /\ \A t \in Sockets : rx'[t] \in Seq(FramesOf(t))
    <3>1. Tail(rx[s]) \in Seq(ButtonFrames \cup {"stop"})
      BY <1>8 DEF ReadFrame, TypeOK
    <3> QED BY <1>8, <2>0, <3>1 DEF ReadFrame, TypeOK
  <2>2. heartbeatSeen' \in BOOLEAN /\ heartbeatAge' \in 0..AgeCap
    BY <1>8, TimesType DEF ReadFrame, ParseButtonCanFrame, ParseMotorCanFrame, TypeOK
  <2>3. \/ UNCHANGED <<latchVars, stopQueue>>
        \/ \E e \in Events : PublishInternalStopEvent(e)
    <3>1. DetectedEvents \subseteq Events
      BY DEF Events
    <3>2. CASE s = "button"
      <4>1. ParseButtonCanFrame(Head(rx[s])) /\ Head(rx[s]) \in ButtonFrames
        BY <1>8, <2>0, <3>2 DEF ReadFrame, FramesOf
      <4> QED BY <3>1, <4>1 DEF ParseButtonCanFrame, DetectedEvents
    <3>3. CASE s # "button"
      <4>1. ParseMotorCanFrame(s)
        BY <1>8, <3>3 DEF ReadFrame
      <4> QED BY <3>1, <4>1 DEF ParseMotorCanFrame, DetectedEvents
    <3> QED BY <3>2, <3>3
  <2>4. CASE UNCHANGED <<latchVars, stopQueue>>
    BY <1>8, <2>1, <2>2, <2>4 DEF ReadFrame, TypeOK
  <2>5. ASSUME NEW e \in Events, PublishInternalStopEvent(e) PROVE TypeOK'
    BY <1>8, <2>1, <2>2, <2>5, InternalStopType, LatchStopType DEF ReadFrame, TypeOK
  <2> QED BY <2>3, <2>4, <2>5
<1>9. CASE CheckButtonHeartbeatWatchdog
  <2>1. CASE HeartbeatStop
    <3>1. PublishInternalStopEvent("button heartbeat missing")
      BY <1>9, <2>1 DEF CheckButtonHeartbeatWatchdog
    <3>2. "button heartbeat missing" \in Events
      BY DEF Events, DetectedEvents
    <3> QED BY <1>9, <3>1, <3>2, InternalStopType, LatchStopType
            DEF CheckButtonHeartbeatWatchdog, TypeOK
  <2>2. CASE ~HeartbeatStop
    BY <1>9, <2>2 DEF CheckButtonHeartbeatWatchdog, TypeOK
  <2> QED BY <2>1, <2>2
<1>10. CASE RepeatStop
  <2>1. CASE Holding
    BY <1>10, <2>1, TimesType DEF RepeatStop, PublishZeroCommands,
       PublishDirectMotorStopCommands, CheckDirectMotorStopFeedback, RequestMissionStop,
       RequestFsmFaultState, TypeOK
  <2>2. CASE ~Holding
    BY <1>10, <2>2 DEF RepeatStop, TypeOK
  <2> QED BY <2>1, <2>2
<1>11. CASE ResetLatchedStop
  <2>1. CASE ClearClients = 0
    BY <1>11, <2>1, ClearType, TimesType DEF ResetLatchedStop, NoteProgress, TypeOK
  <2>2. CASE ClearClients # 0
    <3>1. 1 \in Clients /\ 1 \in 0..ClearClients
      BY <2>2, BoundsAssumption
    <3>2. /\ pc' = "find" /\ client' = 1 /\ waitLeft' \in Nat
          /\ failed' \in BOOLEAN /\ progressAge' \in 0..AgeCap
      BY <1>11, <2>2, TimesType DEF ResetLatchedStop, NoteProgress
    <3> QED BY <1>11, <2>2, <3>1, <3>2 DEF ResetLatchedStop, TypeOK
  <2> QED BY <2>1, <2>2
<1>12. ASSUME NEW f \in BOOLEAN, NextClient(f), Blocked,
              UNCHANGED <<enabled, timerDue, progressAge, stopQueue, canVars, servicesUp, asked,
                          reply, ready, wdVars>>
       PROVE  TypeOK'
  <2>1. CASE client < ClearClients
    BY <1>12, <2>1, TimesType, BoundsAssumption DEF NextClient, TypeOK
  <2>2. CASE ~(client < ClearClients) /\ f
    BY <1>12, <2>2, BoundsAssumption DEF NextClient, TypeOK
  <2>3. CASE ~(client < ClearClients) /\ ~f
    <3>1. pc' = "spin" /\ client' \in 0..ClearClients /\ waitLeft' \in Nat /\ ClearLatchedStop
      BY <1>12, <2>3, BoundsAssumption DEF NextClient
    <3> QED BY <1>12, <3>1, ClearType DEF NextClient, TypeOK
  <2> QED BY <2>1, <2>2, <2>3
<1>13. CASE SendClearRequest
  BY <1>13, TimesType DEF SendClearRequest, TypeOK
<1>14. CASE ServiceNotReady
  BY <1>14, <1>12 DEF ServiceNotReady
<1>15. CASE AwaitResponse
  <2>1. ClearFailed \in BOOLEAN
    BY DEF ClearFailed, TypeOK
  <2> QED BY <1>15, <1>12, <2>1 DEF AwaitResponse
<1>16. CASE WatchdogWake
  BY <1>16, TimesType DEF WatchdogWake, Sleep, TypeOK
<1>17. CASE WatchdogExchange
  BY <1>17, TimesType DEF WatchdogExchange, Sleep, TypeOK
<1>18. CASE WatchdogPublishZero
  BY <1>18, TimesType DEF WatchdogPublishZero, PublishZeroCommands, TypeOK
<1>19. CASE WatchdogPublishStop
  <2>1. PICK e \in WatchdogEvents : stopQueue' = Enqueue(stopQueue, e)
    BY <1>19 DEF WatchdogPublishStop
  <2>2. e \in Events
    BY DEF Events
  <2>3. stopQueue' \in Seq(Events) /\ Len(stopQueue') <= QueueDepth
    BY <2>1, <2>2, EnqueueType DEF TypeOK
  <2> QED BY <1>19, <2>3, TimesType DEF WatchdogPublishStop, Sleep, TypeOK
<1>20. ASSUME NEW e \in PeerEvents, PeerStop(e) PROVE TypeOK'
  <2>1. e \in Events
    BY DEF Events
  <2>2. stopQueue' \in Seq(Events) /\ Len(stopQueue') <= QueueDepth
    BY <1>20, <2>1, EnqueueType DEF PeerStop, TypeOK
  <2> QED BY <1>20, <2>2 DEF PeerStop, TypeOK
<1>21. ASSUME NEW s \in Sockets, NEW frame \in FramesOf(s), FrameArrives(s, frame) PROVE TypeOK'
  BY <1>21 DEF FramesOf, FrameArrives, TypeOK
<1>22. ASSUME NEW s \in Reachable, ServiceComesOrGoes(s) PROVE TypeOK'
  BY <1>22 DEF ServiceComesOrGoes, TypeOK
<1>23. ASSUME NEW c \in Clients, ServeClearRequest(c) PROVE TypeOK'
  BY <1>23 DEF ServeClearRequest, TypeOK
<1>24. CASE Tick
  <2>1. /\ zeroAge' \in 0..AgeCap /\ progressAge' \in 0..AgeCap /\ heartbeatAge' \in 0..AgeCap
    BY <1>24, OlderType DEF Tick, TypeOK
  <2>2. waitLeft' \in Nat /\ wdSleep' \in 0..WatchdogPeriod
    BY <1>24, TimesAssumption DEF Tick, TypeOK
  <2>3. timerDue' = TRUE
    BY <1>24 DEF Tick
  <2> QED BY <1>24, <2>1, <2>2, <2>3, SMTT(60) DEF Tick, TypeOK
<1>25. CASE UNCHANGED vars
  BY <1>25 DEF vars, TypeOK
<1> QED
  BY <1>1, <1>2, <1>3, <1>4, <1>5, <1>6, <1>7, <1>8, <1>9, <1>10, <1>11, <1>13, <1>14, <1>15,
     <1>16, <1>17, <1>18, <1>19, <1>20, <1>21, <1>22, <1>23, <1>24, <1>25
  DEF Next, Executor, Watchdog, Environment

(* The state of the controller is well-typed in every configuration: the   *)
(* queue never outgrows its depth, and a blocked reset always works on one *)
(* of its clients.                                                         *)
THEOREM TypeCorrect == Spec => []TypeOK
BY InitType, NextType, PTL DEF Spec

----------------------------------------------------------------------------
(* The single thread.  A polling stage only runs in an enabled node that   *)
(* has just noted progress, and while the reset waits for an answer nobody *)
(* can fulfil the future it waits for.                                     *)

Polling == Sockets \cup {"heartbeat", "repeat"}

ExecutorInv ==
    /\ pc \in Polling => enabled /\ progressAge = 0
    /\ pc = "wait" => client \notin ready

(* One step of the single-threaded executor keeps what its stage implies.  *)
LEMMA ExecutorStep == TypeOK /\ ExecutorInv /\ [Next]_vars => ExecutorInv'
<1> SUFFICES ASSUME TypeOK, ExecutorInv, [Next]_vars PROVE ExecutorInv'
  OBVIOUS
<1> USE DEF ExecutorInv, Polling, latchVars, canVars, resetVars, wdVars
<1>1. CASE OnStopMessage
  BY <1>1 DEF OnStopMessage
<1>2. ASSUME NEW data \in BOOLEAN, EnableController(data) PROVE ExecutorInv'
  BY <1>2 DEF EnableController
<1>3. ASSUME NEW c \in Clients, TakeResponse(c) PROVE ExecutorInv'
  BY <1>3 DEF TakeResponse
<1>4. CASE OnPublishTimer
  BY <1>4 DEF OnPublishTimer, NoteProgress
<1>5. ASSUME NEW s \in Sockets, EndPoll(s) \/ ReadFails(s) PROVE ExecutorInv'
  BY <1>5 DEF EndPoll, ReadFails, Successor
<1>6. ASSUME NEW s \in Sockets, OpenSocket(s) \/ ReadFrame(s) PROVE ExecutorInv'
  BY <1>6 DEF OpenSocket, ReadFrame
<1>7. CASE CheckButtonHeartbeatWatchdog
  BY <1>7 DEF CheckButtonHeartbeatWatchdog
<1>8. CASE RepeatStop
  BY <1>8 DEF RepeatStop
<1>9. CASE ResetLatchedStop
  BY <1>9 DEF ResetLatchedStop
<1>10. CASE SendClearRequest
  BY <1>10 DEF SendClearRequest
<1>11. CASE ServiceNotReady \/ AwaitResponse
  BY <1>11 DEF ServiceNotReady, AwaitResponse, NextClient
<1>12. CASE Watchdog
  BY <1>12 DEF Watchdog, WatchdogWake, WatchdogExchange, WatchdogPublishZero, WatchdogPublishStop
<1>13. ASSUME NEW e \in PeerEvents, PeerStop(e) PROVE ExecutorInv'
  BY <1>13 DEF PeerStop
<1>14. ASSUME NEW s \in Sockets, NEW frame \in FramesOf(s), FrameArrives(s, frame)
       PROVE  ExecutorInv'
  BY <1>14 DEF FrameArrives
<1>15. ASSUME NEW s \in Reachable, ServiceComesOrGoes(s) PROVE ExecutorInv'
  BY <1>15 DEF ServiceComesOrGoes
<1>16. ASSUME NEW c \in Clients, ServeClearRequest(c) PROVE ExecutorInv'
  BY <1>16 DEF ServeClearRequest
<1>17. CASE Tick
  BY <1>17 DEF Tick
<1>18. CASE UNCHANGED vars
  BY <1>18 DEF vars
<1> QED
  BY <1>1, <1>2, <1>3, <1>4, <1>5, <1>6, <1>7, <1>8, <1>9, <1>10, <1>11, <1>12, <1>13, <1>14,
     <1>15, <1>16, <1>17, <1>18 DEF Next, Executor, Environment

(* In every reachable state: polling happens in an enabled node that has   *)
(* just noted progress, and a reset that waits has no answer.              *)
LEMMA ExecutorInvariant == Spec => []ExecutorInv
<1>1. Init => ExecutorInv
  BY DEF Init, ExecutorInv, Polling
<1> QED BY <1>1, ExecutorStep, TypeCorrect, PTL DEF Spec

----------------------------------------------------------------------------
(* What a step can do to the latch: nothing, latch a stop in an enabled    *)
(* node, clear the latch at the operator's wish, or repeat what holds the  *)
(* robot.                                                                  *)

episode == <<latched, events, active>>
verdicts == <<missionRequested, fsmRequested, directHealthy, confirmed>>

Quiet == UNCHANGED <<episode, verdicts>> /\ (enabled' = enabled \/ enabled' = TRUE)
Latches == enabled /\ enabled' = enabled /\ \E e \in Events : LatchStop(e)
Clears == ClearLatchedStop /\ (~enabled' \/ ClearClients = 0)
Repeats == Holding /\ UNCHANGED <<enabled, episode>>

(* What a step may do to the latch: nothing, latch (latchStop), clear      *)
(* (clearLatchedStop, by the operator), or repeat (onPublishTimer).        *)
LEMMA LatchStep ==
    TypeOK /\ ExecutorInv /\ [Next]_vars => Quiet \/ Latches \/ Clears \/ Repeats
<1> SUFFICES ASSUME TypeOK, ExecutorInv, [Next]_vars
             PROVE  Quiet \/ Latches \/ Clears \/ Repeats
  OBVIOUS
<1> USE DEF Polling, episode, verdicts, latchVars, canVars, resetVars, wdVars
<1>0. DetectedEvents \subseteq Events /\ DetectedEvents # {}
  BY DEF Events, DetectedEvents
<1>1. CASE OnStopMessage
  <2>1. Head(stopQueue) \in Events
    <3>1. stopQueue \in Seq(Events) /\ stopQueue # <<>>
      BY <1>1 DEF OnStopMessage, TypeOK
    <3> QED BY <3>1
  <2> QED BY <1>1, <2>1 DEF OnStopMessage, Latches, Quiet
<1>2. ASSUME NEW data \in BOOLEAN, EnableController(data) PROVE Quiet \/ Clears
  BY <1>2 DEF EnableController, Quiet, Clears
<1>3. ASSUME NEW c \in Clients, TakeResponse(c) PROVE Quiet
  BY <1>3 DEF TakeResponse, Quiet
<1>4. CASE OnPublishTimer
  BY <1>4 DEF OnPublishTimer, Quiet
<1>5. ASSUME NEW s \in Sockets, EndPoll(s) \/ ReadFails(s) \/ OpenSocket(s) PROVE Quiet
  BY <1>5 DEF EndPoll, ReadFails, OpenSocket, Quiet
<1>6. ASSUME NEW s \in Sockets, ReadFrame(s) PROVE Quiet \/ Latches
  <2>1. enabled /\ enabled' = enabled
    BY <1>6 DEF ReadFrame, ExecutorInv
  <2>2. CASE s = "button"
    <3>1. rx[s] \in Seq(FramesOf(s)) /\ rx[s] # <<>>
      BY <1>6 DEF ReadFrame, TypeOK
    <3>2. Head(rx[s]) \in ButtonFrames /\ ParseButtonCanFrame(Head(rx[s]))
      BY <1>6, <2>2, <3>1 DEF ReadFrame, FramesOf
    <3> QED BY <1>0, <2>1, <3>2 DEF ParseButtonCanFrame, DetectedEvents,
                                    PublishInternalStopEvent, Quiet, Latches
  <2>3. CASE s # "button"
    <3>1. ParseMotorCanFrame(s)
      BY <1>6, <2>3 DEF ReadFrame
    <3> QED BY <1>0, <2>1, <3>1 DEF ParseMotorCanFrame, DetectedEvents,
                                    PublishInternalStopEvent, Quiet, Latches
  <2> QED BY <2>2, <2>3
<1>7. CASE CheckButtonHeartbeatWatchdog
  BY <1>0, <1>7 DEF CheckButtonHeartbeatWatchdog, PublishInternalStopEvent, ExecutorInv,
                    DetectedEvents, Quiet, Latches
<1>8. CASE RepeatStop
  BY <1>8 DEF RepeatStop, Quiet, Repeats
<1>9. CASE ResetLatchedStop
  BY <1>9 DEF ResetLatchedStop, Quiet, Clears
<1>10. CASE SendClearRequest
  BY <1>10 DEF SendClearRequest, Quiet
<1>11. CASE ServiceNotReady
  BY <1>11 DEF ServiceNotReady, NextClient, Quiet
<1>12. CASE AwaitResponse
  BY <1>12 DEF AwaitResponse, NextClient, ClearFailed, ExecutorInv, Quiet
<1>13. CASE Watchdog
  BY <1>13 DEF Watchdog, WatchdogWake, WatchdogExchange, WatchdogPublishZero,
               WatchdogPublishStop, Quiet
<1>14. ASSUME NEW e \in PeerEvents, PeerStop(e) PROVE Quiet
  BY <1>14 DEF PeerStop, Quiet
<1>15. ASSUME NEW s \in Sockets, NEW frame \in FramesOf(s), FrameArrives(s, frame) PROVE Quiet
  BY <1>15 DEF FrameArrives, Quiet
<1>16. ASSUME NEW s \in Reachable, ServiceComesOrGoes(s) PROVE Quiet
  BY <1>16 DEF ServiceComesOrGoes, Quiet
<1>17. ASSUME NEW c \in Clients, ServeClearRequest(c) PROVE Quiet
  BY <1>17 DEF ServeClearRequest, Quiet
<1>18. CASE Tick
  BY <1>18 DEF Tick, Quiet
<1>19. CASE UNCHANGED vars
  BY <1>19 DEF vars, Quiet
<1> QED
  BY <1>1, <1>2, <1>3, <1>4, <1>5, <1>6, <1>7, <1>8, <1>9, <1>10, <1>11, <1>12, <1>13, <1>14,
     <1>15, <1>16, <1>17, <1>18, <1>19 DEF Next, Executor, Environment

----------------------------------------------------------------------------
(* The bookkeeping of an episode. *)

(* latchStop in a state whose bookkeeping is right leaves it right. *)
LEMMA LatchStopKeepsCauses ==
    ASSUME TypeOK, LatchHasItsCause, IdleForgetsEpisode, NEW e \in Events, LatchStop(e),
           enabled, enabled' = enabled
    PROVE  LatchHasItsCause' /\ IdleForgetsEpisode'
<1>0. latched' = TRUE /\ events \in Seq(Events)
  BY DEF LatchStop, TypeOK
<1>1. CASE RecordedIn(e, events)
  <2>1. latched
    BY <1>0, <1>1 DEF IdleForgetsEpisode, RecordedIn
  <2>2. events' = events /\ active' = active
    BY <1>1, <2>1 DEF LatchStop, RecordEvent
  <2> QED BY <1>0, <2>1, <2>2 DEF LatchHasItsCause, IdleForgetsEpisode
<1>2. CASE ~RecordedIn(e, events)
  <2>1. events' = Append(events, e) /\ active' = e
    BY <1>2 DEF LatchStop, RecordEvent
  <2>2. /\ Len(events') = Len(events) + 1 /\ events'[Len(events')] = e /\ events' # <<>>
        /\ DOMAIN events = 1..Len(events) /\ DOMAIN events' = 1..(Len(events) + 1)
        /\ \A i \in DOMAIN events : events'[i] = events[i]
    BY <1>0, <2>1
  <2>3. \A i, j \in DOMAIN events : events[i] = events[j] => i = j
    BY <1>0 DEF LatchHasItsCause, IdleForgetsEpisode
  <2>4. \A i \in DOMAIN events : events[i] # e
    BY <1>2 DEF RecordedIn
  <2>5. Len(events) \in Nat
    BY <1>0
  <2>6. \A i, j \in DOMAIN events' : events'[i] = events'[j] => i = j
    BY <2>2, <2>3, <2>4, <2>5
  <2> QED BY <1>0, <2>1, <2>2, <2>6 DEF LatchHasItsCause, IdleForgetsEpisode
<1> QED BY <1>1, <1>2

(* Every step keeps the bookkeeping of the episode.                        *)
LEMMA EpisodeStep ==
    TypeOK /\ ExecutorInv /\ LatchHasItsCause /\ IdleForgetsEpisode /\ [Next]_vars
        => LatchHasItsCause' /\ IdleForgetsEpisode'
<1> SUFFICES ASSUME TypeOK, ExecutorInv, LatchHasItsCause, IdleForgetsEpisode, [Next]_vars
             PROVE  LatchHasItsCause' /\ IdleForgetsEpisode'
  OBVIOUS
<1>1. CASE Quiet
  BY <1>1 DEF Quiet, episode, verdicts, LatchHasItsCause, IdleForgetsEpisode, TypeOK
<1>2. CASE Latches
  BY <1>2, LatchStopKeepsCauses DEF Latches
<1>3. CASE Clears
  BY <1>3 DEF Clears, ClearLatchedStop, LatchHasItsCause, IdleForgetsEpisode
<1>4. CASE Repeats
  BY <1>4 DEF Repeats, Holding, episode, LatchHasItsCause, IdleForgetsEpisode
<1> QED BY <1>1, <1>2, <1>3, <1>4, LatchStep

(* A latched controller is enabled, its causes are complete, each recorded *)
(* once, and the one it reports is the newest; and an idle controller has  *)
(* forgotten the last episode.  For every configuration.                   *)
THEOREM EpisodeIsSound == Spec => [](LatchHasItsCause /\ IdleForgetsEpisode)
<1>1. Init => LatchHasItsCause /\ IdleForgetsEpisode
  BY DEF Init, LatchHasItsCause, IdleForgetsEpisode
<1> QED BY <1>1, EpisodeStep, TypeCorrect, ExecutorInvariant, PTL DEF Spec

(* An idle controller remembers nothing of the last episode, for every     *)
(* configuration.                                                          *)
THEOREM IdleEpisodesForgotten == Spec => []IdleForgetsEpisode
  BY EpisodeIsSound, PTL

----------------------------------------------------------------------------
(* What ends an episode. *)

(* A step that releases the latch disables the node, or resets a node      *)
(* that has no hardware service to ask.                                    *)
LEMMA ReleaseStep ==
    TypeOK /\ ExecutorInv /\ [Next]_vars
        => (latched /\ ~latched' => ~enabled' \/ ClearClients = 0)
<1> SUFFICES ASSUME TypeOK, ExecutorInv, [Next]_vars, latched, ~latched'
             PROVE  ~enabled' \/ ClearClients = 0
  OBVIOUS
<1>1. Quiet \/ Latches \/ Clears \/ Repeats
  BY LatchStep
<1> QED BY <1>1 DEF Quiet, Latches, LatchStop, Clears, Repeats, episode, TypeOK

(* Only the operator ends an episode: by disabling the controller, or by a *)
(* reset that every hardware node has answered.                            *)
THEOREM OnlyOperatorReleases == Spec => ReleasedOnlyByOperator
<1>1. ClearClients = 0 => \A c \in Clients : reply[c] = "ok"
  BY BoundsAssumption
<1>2. TypeOK /\ ExecutorInv /\ [Next]_vars
        => [latched /\ ~latched' => ~enabled' \/ \A c \in Clients : reply[c] = "ok"]_vars
  BY <1>1, ReleaseStep
<1> QED BY <1>2, TypeCorrect, ExecutorInvariant, PTL DEF Spec, ReleasedOnlyByOperator

(* As long as one clear_safety_stop service is configured, no reset ever   *)
(* releases the latch: the executor that waits for the answer is the only  *)
(* thread that could take it.  Disabling the controller is the only way.   *)
ResetKeepsLatch == [][latched /\ ~latched' => ~enabled']_vars

(* The reset service never clears the latch of a node that has hardware    *)
(* recovery services to call.                                              *)
THEOREM ResetNeverReleases == ASSUME ClearClients # 0 PROVE Spec => ResetKeepsLatch
<1>1. TypeOK /\ ExecutorInv /\ [Next]_vars => [latched /\ ~latched' => ~enabled']_vars
  BY ReleaseStep
<1> QED BY <1>1, TypeCorrect, ExecutorInvariant, PTL DEF Spec, ResetKeepsLatch

(* No cause is lost while the stop stays latched. *)
THEOREM NoCauseLost == Spec => CausesKept
<1>1. ASSUME TypeOK, ExecutorInv, [Next]_vars, latched, latched'
      PROVE  IsPrefix(events, events')
  <2>0. events \in Seq(Events)
    BY <1>1 DEF TypeOK
  <2>1. CASE events' = events
    BY <2>0, <2>1 DEF IsPrefix
  <2>2. CASE \E e \in Events : events' = Append(events, e)
    BY <2>0, <2>2 DEF IsPrefix
  <2>3. Quiet \/ Latches \/ Clears \/ Repeats
    BY <1>1, LatchStep
  <2>4. CASE Latches
    BY <2>1, <2>2, <2>4 DEF Latches, LatchStop, RecordEvent
  <2> QED BY <1>1, <2>1, <2>3, <2>4 DEF Quiet, Clears, ClearLatchedStop, Repeats, episode
<1>2. TypeOK /\ ExecutorInv /\ [Next]_vars
        => [latched /\ latched' => IsPrefix(events, events')]_events
  BY <1>1
<1> QED BY <1>2, TypeCorrect, ExecutorInvariant, PTL DEF Spec, CausesKept

----------------------------------------------------------------------------
(* The controller implements StopLatch. *)

(* Every step of the controller is a step of StopLatch or a stutter.       *)
LEMMA PromiseStep == TypeOK /\ ExecutorInv /\ LatchHasItsCause /\ [Next]_vars
                        => [Promise!Next]_(Promise!vars)
<1> SUFFICES ASSUME TypeOK, ExecutorInv, LatchHasItsCause, [Next]_vars
             PROVE  [Promise!Next]_(Promise!vars)
  OBVIOUS
<1> USE DEF Polling, latchVars, canVars, resetVars, wdVars
<1> DEFINE Same == UNCHANGED <<enabled, latched, stopQueue>>
<1>0. Same => UNCHANGED Promise!vars
  BY DEF Promise!vars
<1>1. CASE OnStopMessage
  <2>1. stopQueue # <<>> /\ enabled' = enabled
    BY <1>1 DEF OnStopMessage
  <2>2. latched' = (latched \/ enabled)
    BY <1>1 DEF OnStopMessage, LatchStop, TypeOK, LatchHasItsCause
  <2>3. Promise!Answer
    BY <2>1, <2>2 DEF Promise!Answer
  <2> QED BY <2>3 DEF Promise!Next
<1>2. ASSUME NEW data \in BOOLEAN, EnableController(data) PROVE Promise!Next
  <2>1. enabled' = data /\ latched' = (latched /\ data) /\ stopQueue' = stopQueue
    BY <1>2 DEF EnableController, ClearLatchedStop, TypeOK
  <2>2. Promise!Arm(data)
    BY <2>1 DEF Promise!Arm
  <2> QED BY <2>2 DEF Promise!Next
<1>3. ASSUME NEW e \in Events, PublishInternalStopEvent(e), enabled, enabled' = enabled
      PROVE  Promise!Next
  <2>1. stopQueue' # <<>> /\ latched' = TRUE
    BY <1>3, InternalStopType, LatchStopType
  <2>2. Promise!Detect
    BY <1>3, <2>1 DEF Promise!Detect
  <2> QED BY <2>2 DEF Promise!Next
<1>4. ASSUME NEW s \in Sockets, ReadFrame(s) PROVE Same \/ Promise!Next
  <2>0. DetectedEvents \subseteq Events
    BY DEF Events
  <2>1. enabled /\ enabled' = enabled
    BY <1>4 DEF ReadFrame, ExecutorInv
  <2>2. UNCHANGED <<latchVars, stopQueue>> \/ \E e \in Events : PublishInternalStopEvent(e)
    <3>1. CASE s = "button"
      <4>1. rx[s] \in Seq(FramesOf(s)) /\ rx[s] # <<>>
        BY <1>4 DEF ReadFrame, TypeOK
      <4>2. Head(rx[s]) \in ButtonFrames /\ ParseButtonCanFrame(Head(rx[s]))
        BY <1>4, <3>1, <4>1 DEF ReadFrame, FramesOf
      <4> QED BY <2>0, <4>2 DEF ParseButtonCanFrame, DetectedEvents
    <3>2. CASE s # "button"
      <4>1. ParseMotorCanFrame(s)
        BY <1>4, <3>2 DEF ReadFrame
      <4> QED BY <2>0, <4>1 DEF ParseMotorCanFrame, DetectedEvents
    <3> QED BY <3>1, <3>2
  <2> QED BY <1>3, <2>1, <2>2
<1>5. CASE CheckButtonHeartbeatWatchdog
  <2>1. enabled /\ enabled' = enabled
    BY <1>5 DEF CheckButtonHeartbeatWatchdog, ExecutorInv
  <2>2. "button heartbeat missing" \in Events
    BY DEF Events, DetectedEvents
  <2>3. PublishInternalStopEvent("button heartbeat missing") \/ Same
    BY <1>5, <2>1 DEF CheckButtonHeartbeatWatchdog
  <2> QED BY <1>0, <1>3, <2>1, <2>2, <2>3
<1>6. CASE ResetLatchedStop
  <2>1. Same \/ (latched' = FALSE /\ UNCHANGED <<enabled, stopQueue>>)
    BY <1>6 DEF ResetLatchedStop, ClearLatchedStop
  <2>2. (latched' = FALSE /\ UNCHANGED <<enabled, stopQueue>>) => Promise!Release
    BY DEF Promise!Release
  <2> QED BY <1>0, <2>1, <2>2 DEF Promise!Next
<1>7. CASE AwaitResponse
  BY <1>0, <1>7 DEF AwaitResponse, NextClient, ClearFailed, ExecutorInv
<1>8. CASE ServiceNotReady
  BY <1>0, <1>8 DEF ServiceNotReady, NextClient
<1>9. ASSUME NEW e \in Events, stopQueue' = Enqueue(stopQueue, e), UNCHANGED <<enabled, latched>>
      PROVE  Promise!Next
  <2>1. stopQueue' # <<>>
    BY <1>9, EnqueueType DEF TypeOK
  <2>2. Promise!Request
    BY <1>9, <2>1 DEF Promise!Request
  <2> QED BY <2>2 DEF Promise!Next
<1>10. CASE WatchdogPublishStop
  <2>1. PICK e \in WatchdogEvents : stopQueue' = Enqueue(stopQueue, e)
    BY <1>10 DEF WatchdogPublishStop
  <2> QED BY <1>9, <1>10, <2>1 DEF WatchdogPublishStop, Events
<1>11. ASSUME NEW e \in PeerEvents, PeerStop(e) PROVE Promise!Next
  BY <1>9, <1>11 DEF PeerStop, Events
<1>12. CASE \/ OnPublishTimer \/ RepeatStop \/ SendClearRequest
            \/ WatchdogWake \/ WatchdogExchange \/ WatchdogPublishZero \/ Tick
            \/ UNCHANGED vars
  BY <1>0, <1>12 DEF OnPublishTimer, RepeatStop, SendClearRequest, WatchdogWake,
                     WatchdogExchange, WatchdogPublishZero, Tick, vars
<1>13. ASSUME NEW s \in Sockets, EndPoll(s) \/ OpenSocket(s) \/ ReadFails(s) PROVE Same
  BY <1>13 DEF EndPoll, OpenSocket, ReadFails
<1>14. ASSUME NEW c \in Clients, TakeResponse(c) \/ ServeClearRequest(c) PROVE Same
  BY <1>14 DEF TakeResponse, ServeClearRequest
<1>15. ASSUME NEW s \in Sockets, NEW frame \in FramesOf(s), FrameArrives(s, frame) PROVE Same
  BY <1>15 DEF FrameArrives
<1>16. ASSUME NEW s \in Reachable, ServiceComesOrGoes(s) PROVE Same
  BY <1>16 DEF ServiceComesOrGoes
<1> HIDE DEF Same
<1> QED
  BY <1>0, <1>1, <1>2, <1>4, <1>5, <1>6, <1>7, <1>8, <1>10, <1>11, <1>12, <1>13, <1>14, <1>15,
     <1>16 DEF Next, Executor, Watchdog, Environment

(* The safety part of KeepsPromise: every step of the controller is a step *)
(* of StopLatch or leaves it unchanged.  A queued stop is a pending one.   *)
THEOREM ImplementsStopLatch == Spec => Promise!Init /\ [][Promise!Next]_(Promise!vars)
<1>1. Init => Promise!Init
  BY DEF Init, Promise!Init
<1>2. LatchHasItsCause /\ IdleForgetsEpisode => LatchHasItsCause
  OBVIOUS
<1> QED BY <1>1, <1>2, PromiseStep, TypeCorrect, ExecutorInvariant, EpisodeIsSound, PTL DEF Spec

----------------------------------------------------------------------------
(* The robot is held whenever the executor is free. *)

(* HeldWhileFree has to survive the reset, which takes the executor from   *)
(* "spin" and gives it back later: until the timer expires again, what the *)
(* last period published is still fresh.                                   *)
HeldInv == latched /\ ~timerDue /\ pc \notin Polling => zeroAge = 0

(* Every step keeps the last zero twist within the period.                 *)
LEMMA HeldStep ==
    TypeOK /\ ExecutorInv /\ LatchHasItsCause /\ HeldInv /\ [Next]_vars => HeldInv'
<1> SUFFICES ASSUME TypeOK, ExecutorInv, LatchHasItsCause, HeldInv, [Next]_vars
             PROVE  HeldInv'
  OBVIOUS
<1> USE DEF HeldInv, Polling, latchVars, canVars, resetVars, wdVars
<1>1. CASE OnStopMessage
  BY <1>1 DEF OnStopMessage, LatchStop, PublishZeroCommands
<1>2. ASSUME NEW data \in BOOLEAN, EnableController(data) PROVE HeldInv'
  BY <1>2 DEF EnableController, ClearLatchedStop
<1>3. ASSUME NEW c \in Clients, TakeResponse(c) PROVE HeldInv'
  BY <1>3 DEF TakeResponse
<1>4. CASE OnPublishTimer
  BY <1>4 DEF OnPublishTimer, LatchHasItsCause
<1>5. ASSUME NEW s \in Sockets, EndPoll(s) \/ ReadFails(s) PROVE HeldInv'
  <2>1. pc' = Successor[s] /\ Successor[s] \in Polling
    BY <1>5 DEF EndPoll, ReadFails, Successor
  <2> QED BY <2>1
<1>6. ASSUME NEW s \in Sockets, OpenSocket(s) \/ ReadFrame(s) PROVE HeldInv'
  BY <1>6 DEF OpenSocket, ReadFrame
<1>7. CASE CheckButtonHeartbeatWatchdog
  BY <1>7 DEF CheckButtonHeartbeatWatchdog
<1>8. CASE RepeatStop
  BY <1>8 DEF RepeatStop, Holding, PublishZeroCommands, LatchHasItsCause
<1>9. CASE ResetLatchedStop
  BY <1>9 DEF ResetLatchedStop, ClearLatchedStop
<1>10. CASE SendClearRequest
  BY <1>10 DEF SendClearRequest
<1>11. CASE ServiceNotReady \/ AwaitResponse
  BY <1>11 DEF ServiceNotReady, AwaitResponse, NextClient, ClearLatchedStop
<1>12. CASE Watchdog
  BY <1>12 DEF Watchdog, WatchdogWake, WatchdogExchange, WatchdogPublishZero,
               WatchdogPublishStop, PublishZeroCommands
<1>13. ASSUME NEW e \in PeerEvents, PeerStop(e) PROVE HeldInv'
  BY <1>13 DEF PeerStop
<1>14. ASSUME NEW s \in Sockets, NEW frame \in FramesOf(s), FrameArrives(s, frame) PROVE HeldInv'
  BY <1>14 DEF FrameArrives
<1>15. ASSUME NEW s \in Reachable, ServiceComesOrGoes(s) PROVE HeldInv'
  BY <1>15 DEF ServiceComesOrGoes
<1>16. ASSUME NEW c \in Clients, ServeClearRequest(c) PROVE HeldInv'
  BY <1>16 DEF ServeClearRequest
<1>17. CASE Tick
  BY <1>17 DEF Tick
<1>18. CASE UNCHANGED vars
  BY <1>18 DEF vars
<1> QED
  BY <1>1, <1>2, <1>3, <1>4, <1>5, <1>6, <1>7, <1>8, <1>9, <1>10, <1>11, <1>12, <1>13, <1>14,
     <1>15, <1>16, <1>17, <1>18 DEF Next, Executor, Environment

(* In every timer period that leaves the executor free, a latched          *)
(* controller publishes a zero twist.                                      *)
THEOREM HeldWheneverFree == Spec => []HeldWhileFree
<1>1. Init => HeldInv
  BY DEF Init, HeldInv
<1>2. HeldInv => HeldWhileFree
  BY DEF HeldInv, HeldWhileFree, Polling
<1>3. LatchHasItsCause /\ IdleForgetsEpisode => LatchHasItsCause
  OBVIOUS
<1> QED BY <1>1, <1>2, <1>3, HeldStep, TypeCorrect, ExecutorInvariant, EpisodeIsSound, PTL DEF Spec

----------------------------------------------------------------------------
(* The watchdog notices every stall.  While its flag is down, the age of   *)
(* the progress is within the timeout, or the thread wakes up before the   *)
(* age exceeds the timeout by more than one period.                        *)
NoticeInv ==
    InternalWatchdogEnabled /\ enabled /\ ~watchdogPublished =>
        /\ wd = "sleep" => \/ progressAge <= WatchdogTimeout
                           \/ progressAge + wdSleep <= WatchdogTimeout + WatchdogPeriod
        /\ wd = "exchange" => progressAge <= WatchdogTimeout + WatchdogPeriod
        /\ wd \in {"zero", "stop"} => progressAge <= WatchdogTimeout

(* One tick makes the progress one tick older and the sleep one shorter. *)
LEMMA TickSum ==
    ASSUME NEW age \in Int, NEW older \in Int, older <= age + 1,
           NEW left \in Int, NEW timeout \in Int, NEW period \in Int, left <= period,
           age <= timeout \/ age + left <= timeout + period
    PROVE  older + (left - 1) <= timeout + period
OBVIOUS

(* Every step keeps the watchdog's sleep and the stall it measures in      *)
(* balance.                                                                *)
LEMMA NoticeStep == TypeOK /\ ExecutorInv /\ NoticeInv /\ [Next]_vars => NoticeInv'
<1> SUFFICES ASSUME TypeOK, ExecutorInv, NoticeInv, [Next]_vars PROVE NoticeInv'
  OBVIOUS
<1> USE DEF Polling, latchVars, canVars, resetVars, wdVars
<1> DEFINE Same == UNCHANGED <<enabled, progressAge, watchdogPublished, wdVars>>
<1>1. ASSUME progressAge' = 0 PROVE NoticeInv'
  BY <1>1, TimesAssumption DEF NoticeInv
<1>2. ASSUME Same PROVE NoticeInv'
  BY <1>2 DEF NoticeInv
<1>3. CASE OnStopMessage
  BY <1>1, <1>3 DEF OnStopMessage, NoteProgress
<1>4. ASSUME NEW data \in BOOLEAN, EnableController(data) PROVE NoticeInv'
  BY <1>1, <1>4 DEF EnableController, NoteProgress
<1>5. CASE OnPublishTimer
  BY <1>1, <1>5 DEF OnPublishTimer, NoteProgress
<1>6. CASE ResetLatchedStop
  BY <1>1, <1>6 DEF ResetLatchedStop, NoteProgress
<1>7. ASSUME NEW s \in Sockets, EndPoll(s) \/ OpenSocket(s) \/ ReadFails(s) PROVE Same
  BY <1>7 DEF EndPoll, OpenSocket, ReadFails
<1>8. ASSUME NEW s \in Sockets, ReadFrame(s) PROVE progressAge' = 0
  BY <1>8 DEF ReadFrame, ExecutorInv
<1>9. CASE CheckButtonHeartbeatWatchdog
  BY <1>1, <1>9 DEF CheckButtonHeartbeatWatchdog, ExecutorInv
<1>10. CASE RepeatStop
  BY <1>1, <1>10 DEF RepeatStop, ExecutorInv
<1>11. CASE SendClearRequest
  BY <1>2, <1>11 DEF SendClearRequest
<1>12. CASE ServiceNotReady
  BY <1>2, <1>12 DEF ServiceNotReady, NextClient
<1>13. CASE AwaitResponse
  BY <1>2, <1>13 DEF AwaitResponse, NextClient, ClearFailed, ExecutorInv
<1>14. CASE WatchdogWake
  BY <1>14, TimesAssumption DEF WatchdogWake, Stalled, Sleep, NoticeInv, TypeOK
<1>15. CASE WatchdogExchange
  BY <1>15 DEF WatchdogExchange, NoticeInv
<1>16. CASE WatchdogPublishZero
  BY <1>16 DEF WatchdogPublishZero, NoticeInv
<1>17. CASE WatchdogPublishStop
  BY <1>17, TimesAssumption DEF WatchdogPublishStop, Sleep, NoticeInv, TypeOK
<1>18. CASE Tick
  <2>1. progressAge' <= progressAge + 1 /\ wdSleep' = wdSleep - 1 /\ wd = "sleep" /\ wd' = wd
    BY <1>18, TimesAssumption DEF Tick, Older, TypeOK
  <2>2. UNCHANGED <<enabled, watchdogPublished>>
    BY <1>18 DEF Tick
  <2>3. /\ progressAge \in Int /\ progressAge' \in Int /\ wdSleep \in Int
        /\ wdSleep <= WatchdogPeriod
    BY <1>18, TimesAssumption DEF Tick, Older, TypeOK
  <2>4. WatchdogTimeout \in Int /\ WatchdogPeriod \in Int
    BY TimesAssumption
  <2>5. ASSUME progressAge <= WatchdogTimeout
               \/ progressAge + wdSleep <= WatchdogTimeout + WatchdogPeriod
        PROVE  progressAge' + (wdSleep - 1) <= WatchdogTimeout + WatchdogPeriod
    BY <2>1, <2>3, <2>4, <2>5, TickSum
  <2> QED BY <2>1, <2>2, <2>5 DEF NoticeInv
<1>19. ASSUME NEW e \in PeerEvents, PeerStop(e) PROVE Same
  BY <1>19 DEF PeerStop
<1>20. ASSUME NEW s \in Sockets, NEW frame \in FramesOf(s), FrameArrives(s, frame) PROVE Same
  BY <1>20 DEF FrameArrives
<1>21. ASSUME NEW s \in Reachable, ServiceComesOrGoes(s) PROVE Same
  BY <1>21 DEF ServiceComesOrGoes
<1>22. ASSUME NEW c \in Clients, TakeResponse(c) \/ ServeClearRequest(c) PROVE Same
  BY <1>22 DEF TakeResponse, ServeClearRequest
<1>23. CASE UNCHANGED vars
  BY <1>2, <1>23 DEF vars
<1> HIDE DEF Same
<1> QED
  BY <1>1, <1>2, <1>3, <1>4, <1>5, <1>6, <1>7, <1>8, <1>9, <1>10, <1>11, <1>12, <1>13, <1>14,
     <1>15, <1>16, <1>17, <1>18, <1>19, <1>20, <1>21, <1>22, <1>23
  DEF Next, Executor, Watchdog, Environment

(* For every timeout and check period, a stall of an enabled node raises   *)
(* the watchdog's flag at most one period after the timeout.               *)
THEOREM EveryStallNoticed == Spec => []WatchdogNotices
<1>1. Init => NoticeInv
  BY TimesAssumption DEF Init, NoticeInv
<1>2. TypeOK /\ NoticeInv => WatchdogNotices
  BY TimesAssumption DEF NoticeInv, WatchdogNotices, TypeOK
<1> QED BY <1>1, <1>2, NoticeStep, TypeCorrect, ExecutorInvariant, PTL DEF Spec

=============================================================================
