-------------------------- MODULE SafetyController --------------------------
(***************************************************************************)
(* amr_sweeper_safety_controller: the node that latches a safety stop.     *)
(*                                                                         *)
(* Two threads share the state.  The executor thread runs one callback at  *)
(* a time to its end: the stop subscription, the publish timer (a chain of *)
(* polling stages), the reset and enable services, and the dispatch of     *)
(* service responses.  The watchdog thread sleeps, looks at the progress   *)
(* the executor noted last, and stops the robot when it is too old.        *)
(*                                                                         *)
(* Time is a discrete clock.  Every callback but the reset takes no time;  *)
(* the reset blocks the executor in wait_for_service and future.wait_for.  *)
(* The frames that stop the motors over CAN, and what the feedback says of *)
(* the motors, are reduced here to their verdicts.                         *)
(***************************************************************************)
EXTENDS Integers, Sequences, FiniteSets

CONSTANTS
    PeerEvents,              \* stops other nodes publish: <<sender, reason>> as one value
    WatchdogEvents,          \* stops of the watchdog thread: the reason quotes the elapsed ms
    QueueDepth,              \* keep-last depth of the stop topic (QoS(10) in the code)
    Reachable,               \* environment: which of "mission", "fsm" are deployed
    MaxRx,                   \* bound: frames waiting in one CAN socket
    MissionStopEnabled,      \* parameter mission_stop_enabled
    ButtonMonitorEnabled,    \* parameter button_can_monitor_enabled
    DirectStopEnabled,       \* parameter direct_can_motor_stop_enabled
    OdriveStopEnabled,       \* parameter odrive_direct_can_stop_enabled
    SteadydriveStopEnabled,  \* parameter steadydrive_direct_can_stop_enabled
    ExternalMonitorEnabled,  \* parameter external_can_stop_monitor_enabled
    InternalWatchdogEnabled, \* parameter internal_watchdog_enabled
    WatchdogTimeout,         \* internal_watchdog_timeout_ms, in ticks
    WatchdogPeriod,          \* internal_watchdog_check_period_ms, in ticks
    HeartbeatTimeout,        \* button_heartbeat_timeout_ms, in ticks
    ClearClients,            \* number of clear_safety_stop_services
    ServiceWait,             \* wait_for_service(2 s), in ticks
    ResponseWait,            \* future.wait_for(5 s), in ticks
    AgeCap                   \* bound: ages stop growing here

Sockets == {"button", "odrive", "steadydrive"}

ButtonFrames == {"pressed", "status", "status_pressed"}

(* Stops the controller raises from what it reads on the CAN bus. *)
DetectedEvents == {"button event frame", "button status frame", "button heartbeat missing",
                   "odrive e-stop observed", "steadydrive stop observed"}

Events == PeerEvents \cup WatchdogEvents \cup DetectedEvents
NoEvent == "none"

Flags == <<MissionStopEnabled, ButtonMonitorEnabled, DirectStopEnabled, OdriveStopEnabled,
           SteadydriveStopEnabled, ExternalMonitorEnabled, InternalWatchdogEnabled>>

ASSUME EventsAssumption == NoEvent \notin Events /\ WatchdogEvents # {}
ASSUME FlagsAssumption == \A i \in 1..7 : Flags[i] \in BOOLEAN
ASSUME BoundsAssumption ==
    /\ QueueDepth \in Nat \ {0}
    /\ MaxRx \in Nat
    /\ Reachable \subseteq {"mission", "fsm"}
    /\ ClearClients \in Nat
ASSUME TimesAssumption ==
    /\ WatchdogTimeout \in Nat /\ WatchdogPeriod \in Nat \ {0}
    /\ HeartbeatTimeout \in Nat
    /\ ServiceWait \in Nat /\ ResponseWait \in Nat
    /\ AgeCap \in Nat
    /\ AgeCap > WatchdogTimeout + WatchdogPeriod /\ AgeCap > HeartbeatTimeout

Clients == 1..ClearClients

VARIABLES
    pc,                \* executor: "spin", a polling stage, or "find"/"wait" in the reset
    enabled,           \* enabled_
    latched,           \* latched_stop_active_
    events,            \* latched_stop_events_
    active,            \* active_stop_event_
    missionRequested,  \* mission_stop_requested_
    fsmRequested,      \* fsm_fault_requested_
    directHealthy,     \* direct_motor_stop_healthy_
    confirmed,         \* direct_motor_stop_confirmed_
    timerDue,          \* the publish timer has expired
    zeroAge,           \* ticks since the last zero twist was published
    progressAge,       \* now - last_progress_time_ns_
    stopQueue,         \* messages waiting in the stop subscription
    openSockets,       \* CAN sockets with socket_fd >= 0
    rx,                \* frames waiting in each CAN socket
    heartbeatSeen,     \* button_heartbeat_seen_
    heartbeatAge,      \* now - button_last_status_frame_time_
    servicesUp,        \* environment: which of "mission", "fsm" answer service_is_ready
    client,            \* reset: index into clear_safety_stop_clients_, 0 outside a reset
    waitLeft,          \* reset: ticks left before the blocking call gives up
    failed,            \* reset: failures is not empty
    asked,             \* clear requests the hardware nodes have not served yet
    reply,             \* hardware's answer to the last request of each client
    ready,             \* clients whose future the executor has fulfilled
    wd,                \* watchdog thread: where it is
    wdSleep,           \* watchdog thread: ticks left to sleep
    watchdogPublished  \* internal_watchdog_stop_published_

latchVars == <<latched, events, active, missionRequested, fsmRequested, directHealthy,
               confirmed, zeroAge, watchdogPublished>>
canVars == <<openSockets, rx, heartbeatSeen, heartbeatAge>>
resetVars == <<client, waitLeft, failed, asked, reply, ready>>
wdVars == <<wd, wdSleep>>
vars == <<pc, enabled, latchVars, timerDue, progressAge, stopQueue, canVars, servicesUp,
          resetVars, wdVars>>

----------------------------------------------------------------------------
(* The latch.  These operators are the bodies of member functions; the     *)
(* callbacks below call them.                                              *)

(* Mutant: the queue is not bounded. *)
EnqueueUnbounded(q, e) == Append(q, e)

(* Keep-last history: a full queue drops its oldest message. *)
Enqueue(q, e) == IF Len(q) < QueueDepth THEN Append(q, e) ELSE Append(Tail(q), e)

(* Mutant: nothing is recognised as already recorded. *)
RecordedInNothing(e, seq) == FALSE

RecordedIn(e, seq) == \E i \in DOMAIN seq : seq[i] = e

(* requestMissionStop and requestFsmFaultState: sent once, when the service *)
(* is ready.  The arguments are the flags before the call.                  *)
RequestMissionStop(requested) ==
    missionRequested' = (requested \/ (MissionStopEnabled /\ "mission" \in servicesUp))

(* Mutant: the FSM is asked only when the stop latches. *)
RequestFsmFaultStateOnce(requested) ==
    fsmRequested' = (requested \/ (~latched /\ "fsm" \in servicesUp))

RequestFsmFaultState(requested) ==
    fsmRequested' = (requested \/ "fsm" \in servicesUp)

PublishZeroCommands == zeroAge' = 0

(* The frames reach the bus or not; without direct stops this succeeds. *)
PublishDirectMotorStopCommands ==
    directHealthy' \in IF DirectStopEnabled THEN BOOLEAN ELSE {TRUE}

(* Mutant: only the latest cause is remembered. *)
RecordLatestEvent(e) == events' = <<e>>

RecordEvent(e) == events' = IF RecordedIn(e, events) THEN events ELSE Append(events, e)

LatchStop(e) ==
    /\ latched' = TRUE
    /\ RecordEvent(e)
    /\ active' = IF latched /\ RecordedIn(e, events) THEN active ELSE e
    /\ confirmed' = (latched /\ confirmed)
    /\ watchdogPublished' = (latched /\ watchdogPublished)
    /\ PublishZeroCommands
    /\ PublishDirectMotorStopCommands
    /\ RequestMissionStop(latched /\ missionRequested)
    /\ RequestFsmFaultState(latched /\ fsmRequested)

PublishInternalStopEvent(e) ==
    /\ stopQueue' = Enqueue(stopQueue, e)
    /\ LatchStop(e)

(* Mutant: the verdicts on the motors survive the episode. *)
ClearButKeepVerdicts ==
    /\ latched' = FALSE
    /\ missionRequested' = FALSE
    /\ fsmRequested' = FALSE
    /\ watchdogPublished' = FALSE
    /\ active' = NoEvent
    /\ events' = <<>>
    /\ UNCHANGED <<zeroAge, directHealthy, confirmed>>

(* Mutant: the FAULT request of the last episode still counts as sent. *)
ClearButKeepRequest ==
    /\ latched' = FALSE
    /\ missionRequested' = FALSE
    /\ directHealthy' = TRUE
    /\ confirmed' = FALSE
    /\ watchdogPublished' = FALSE
    /\ active' = NoEvent
    /\ events' = <<>>
    /\ UNCHANGED <<zeroAge, fsmRequested>>

ClearLatchedStop ==
    /\ latched' = FALSE
    /\ missionRequested' = FALSE
    /\ fsmRequested' = FALSE
    /\ directHealthy' = TRUE
    /\ confirmed' = FALSE
    /\ watchdogPublished' = FALSE
    /\ active' = NoEvent
    /\ events' = <<>>
    /\ UNCHANGED zeroAge

NoteProgress == progressAge' = 0

----------------------------------------------------------------------------
(* Executor callbacks other than the timer. *)

OnStopMessage ==
    /\ pc = "spin"
    /\ stopQueue # <<>>
    /\ stopQueue' = Tail(stopQueue)
    /\ NoteProgress
    /\ IF enabled THEN LatchStop(Head(stopQueue)) ELSE UNCHANGED latchVars
    /\ UNCHANGED <<pc, enabled, timerDue, canVars, servicesUp, resetVars, wdVars>>

(* Mutant: the latch is cleared on enabling, not on disabling. *)
EnableControllerSwapped(data) ==
    /\ pc = "spin"
    /\ NoteProgress
    /\ enabled' = data
    /\ IF data THEN ClearLatchedStop ELSE UNCHANGED latchVars
    /\ UNCHANGED <<pc, timerDue, stopQueue, canVars, servicesUp, resetVars, wdVars>>

EnableController(data) ==
    /\ pc = "spin"
    /\ NoteProgress
    /\ enabled' = data
    /\ IF data THEN UNCHANGED latchVars ELSE ClearLatchedStop
    /\ UNCHANGED <<pc, timerDue, stopQueue, canVars, servicesUp, resetVars, wdVars>>

(* The executor takes a response and fulfils the future it belongs to. *)
TakeResponse(c) ==
    /\ pc = "spin"
    /\ reply[c] # "none" /\ c \notin ready
    /\ ready' = ready \cup {c}
    /\ UNCHANGED <<pc, enabled, latchVars, timerDue, progressAge, stopQueue, canVars,
                   servicesUp, client, waitLeft, failed, asked, reply, wdVars>>

----------------------------------------------------------------------------
(* The publish timer: poll the CAN sockets, check the button heartbeat,    *)
(* and repeat everything that holds the robot while the stop is latched.   *)

Monitored(s) ==
    CASE s = "button"      -> ButtonMonitorEnabled
      [] s = "odrive"      -> DirectStopEnabled /\ OdriveStopEnabled
      [] s = "steadydrive" -> DirectStopEnabled /\ SteadydriveStopEnabled

Successor == [button |-> "odrive", odrive |-> "steadydrive", steadydrive |-> "heartbeat"]

OnPublishTimer ==
    /\ pc = "spin"
    /\ timerDue
    /\ timerDue' = FALSE
    /\ NoteProgress
    /\ pc' = IF enabled THEN "button" ELSE "spin"
    /\ UNCHANGED <<enabled, latchVars, stopQueue, canVars, servicesUp, resetVars, wdVars>>

(* The end of a poll: the monitor is off, ensureCanInterface fails, or the *)
(* socket has no more frames.                                              *)
EndPoll(s) ==
    /\ pc = s
    /\ Monitored(s) /\ s \in openSockets => rx[s] = <<>>
    /\ pc' = Successor[s]
    /\ UNCHANGED <<enabled, latchVars, timerDue, progressAge, stopQueue, canVars, servicesUp,
                   resetVars, wdVars>>

OpenSocket(s) ==
    /\ pc = s
    /\ Monitored(s)
    /\ s \notin openSockets
    /\ openSockets' = openSockets \cup {s}
    /\ UNCHANGED <<pc, enabled, latchVars, timerDue, progressAge, stopQueue, rx, heartbeatSeen,
                   heartbeatAge, servicesUp, resetVars, wdVars>>

(* A failed read closes the socket, and what waited in it is lost. *)
ReadFails(s) ==
    /\ pc = s
    /\ Monitored(s)
    /\ s \in openSockets
    /\ openSockets' = openSockets \ {s}
    /\ rx' = [rx EXCEPT ![s] = <<>>]
    /\ pc' = Successor[s]
    /\ UNCHANGED <<enabled, latchVars, timerDue, progressAge, stopQueue, heartbeatSeen,
                   heartbeatAge, servicesUp, resetVars, wdVars>>

(* parseButtonCanFrame: an event frame, or a status frame with the pressed *)
(* bit, is a stop; a status frame (the module sends full ones) is also a   *)
(* heartbeat.                                                              *)
ParseButtonCanFrame(frame) ==
    /\ IF frame = "pressed"
          THEN UNCHANGED <<heartbeatSeen, heartbeatAge>>
          ELSE heartbeatSeen' = TRUE /\ heartbeatAge' = 0
    /\ CASE frame = "pressed"        -> PublishInternalStopEvent("button event frame")
         [] frame = "status_pressed" -> PublishInternalStopEvent("button status frame")
         [] frame = "status"         -> UNCHANGED <<latchVars, stopQueue>>

(* parseOdriveCanFrame, parseSteadydriveCanFrame: the only frame kept here *)
(* is a stop command that some other node put on the bus.                  *)
ParseMotorCanFrame(s) ==
    /\ IF ExternalMonitorEnabled
          THEN PublishInternalStopEvent(IF s = "odrive" THEN "odrive e-stop observed"
                                                        ELSE "steadydrive stop observed")
          ELSE UNCHANGED <<latchVars, stopQueue>>
    /\ UNCHANGED <<heartbeatSeen, heartbeatAge>>

ReadFrame(s) ==
    /\ pc = s
    /\ s \in openSockets
    /\ rx[s] # <<>>
    /\ rx' = [rx EXCEPT ![s] = Tail(@)]
    /\ IF s = "button" THEN ParseButtonCanFrame(Head(rx[s])) ELSE ParseMotorCanFrame(s)
    /\ UNCHANGED <<pc, enabled, timerDue, progressAge, openSockets, servicesUp, resetVars, wdVars>>

HeartbeatLost == heartbeatSeen /\ heartbeatAge > HeartbeatTimeout

(* Mutant: the heartbeat is not checked while the CAN socket is closed. *)
HeartbeatStopOfOpenSocket ==
    ButtonMonitorEnabled /\ ~latched /\ HeartbeatLost /\ "button" \in openSockets

HeartbeatStop == ButtonMonitorEnabled /\ ~latched /\ HeartbeatLost

CheckButtonHeartbeatWatchdog ==
    /\ pc = "heartbeat"
    /\ pc' = "repeat"
    /\ IF HeartbeatStop
          THEN PublishInternalStopEvent("button heartbeat missing")
          ELSE UNCHANGED <<latchVars, stopQueue>>
    /\ UNCHANGED <<enabled, timerDue, progressAge, canVars, servicesUp, resetVars, wdVars>>

(* checkDirectMotorStopFeedback, reduced to its verdict. *)
CheckDirectMotorStopFeedback ==
    confirmed' \in IF DirectStopEnabled THEN BOOLEAN ELSE {TRUE}

(* Mutant: the stop is repeated until the motors are seen to stand. *)
HoldingUntilConfirmed == enabled /\ latched /\ ~confirmed

Holding == enabled /\ latched

RepeatStop ==
    /\ pc = "repeat"
    /\ pc' = "spin"
    /\ IF Holding
          THEN /\ PublishZeroCommands
               /\ PublishDirectMotorStopCommands
               /\ CheckDirectMotorStopFeedback
               /\ RequestMissionStop(missionRequested)
               /\ RequestFsmFaultState(fsmRequested)
               /\ UNCHANGED <<latched, events, active, watchdogPublished>>
          ELSE UNCHANGED latchVars
    /\ UNCHANGED <<enabled, timerDue, progressAge, stopQueue, canVars, servicesUp, resetVars, wdVars>>

----------------------------------------------------------------------------
(* The reset service: clear the hardware first, then the latch.  The       *)
(* callback holds the executor from ResetLatchedStop to its last client.   *)

ResetLatchedStop ==
    /\ pc = "spin"
    /\ NoteProgress
    /\ failed' = FALSE
    /\ IF ClearClients = 0
          THEN ClearLatchedStop /\ UNCHANGED <<pc, client, waitLeft>>
          ELSE /\ pc' = "find" /\ client' = 1 /\ waitLeft' = ServiceWait
               /\ UNCHANGED latchVars
    /\ UNCHANGED <<enabled, timerDue, stopQueue, canVars, servicesUp, asked, reply, ready, wdVars>>

(* The next client, or the end of the callback: any failure keeps the latch. *)
NextClient(anyFailed) ==
    /\ failed' = anyFailed
    /\ IF client < ClearClients
          THEN /\ pc' = "find" /\ client' = client + 1 /\ waitLeft' = ServiceWait
               /\ UNCHANGED latchVars
          ELSE /\ pc' = "spin" /\ client' = 0 /\ waitLeft' = 0
               /\ IF anyFailed THEN UNCHANGED latchVars ELSE ClearLatchedStop

(* wait_for_service finds the service, and the request is sent. *)
SendClearRequest ==
    /\ pc = "find"
    /\ pc' = "wait"
    /\ waitLeft' = ResponseWait
    /\ asked' = asked \cup {client}
    /\ reply' = [reply EXCEPT ![client] = "none"]
    /\ ready' = ready \ {client}
    /\ UNCHANGED <<enabled, latchVars, timerDue, progressAge, stopQueue, canVars, servicesUp,
                   client, failed, wdVars>>

ServiceNotReady ==
    /\ pc = "find"
    /\ waitLeft = 0
    /\ NextClient(TRUE)
    /\ UNCHANGED <<enabled, timerDue, progressAge, stopQueue, canVars, servicesUp, asked, reply,
                   ready, wdVars>>

(* Mutant: only a refusal counts as a failure, a missing answer does not. *)
ClearRefused == failed \/ reply[client] = "refused"

ClearFailed == failed \/ client \notin ready \/ reply[client] # "ok"

(* future.wait_for returns when the future is fulfilled or the time is up. *)
AwaitResponse ==
    /\ pc = "wait"
    /\ client \notin ready => waitLeft = 0
    /\ NextClient(ClearFailed)
    /\ UNCHANGED <<enabled, timerDue, progressAge, stopQueue, canVars, servicesUp, asked, reply,
                   ready, wdVars>>

----------------------------------------------------------------------------
(* The watchdog thread.  It runs between any two steps of the executor.    *)

Sleep == wd' = "sleep" /\ wdSleep' = WatchdogPeriod

(* Mutant: a latched node is not watched. *)
StalledUnlatched ==
    InternalWatchdogEnabled /\ enabled /\ ~latched /\ progressAge > WatchdogTimeout

Stalled == InternalWatchdogEnabled /\ enabled /\ progressAge > WatchdogTimeout

WatchdogWake ==
    /\ wd = "sleep"
    /\ wdSleep = 0
    /\ IF Stalled
          THEN wd' = "exchange" /\ UNCHANGED wdSleep
          ELSE Sleep
    /\ UNCHANGED <<pc, enabled, latchVars, timerDue, progressAge, stopQueue, canVars, servicesUp,
                   resetVars>>

(* internal_watchdog_stop_published_.exchange(true) *)
WatchdogExchange ==
    /\ wd = "exchange"
    /\ watchdogPublished' = TRUE
    /\ IF watchdogPublished THEN Sleep ELSE wd' = "zero" /\ UNCHANGED wdSleep
    /\ UNCHANGED <<pc, enabled, latched, events, active, missionRequested, fsmRequested,
                   directHealthy, confirmed, zeroAge, timerDue, progressAge, stopQueue, canVars,
                   servicesUp, resetVars>>

WatchdogPublishZero ==
    /\ wd = "zero"
    /\ wd' = "stop"
    /\ PublishZeroCommands
    /\ UNCHANGED <<pc, enabled, latched, events, active, missionRequested, fsmRequested,
                   directHealthy, confirmed, watchdogPublished, timerDue, progressAge, stopQueue,
                   canVars, servicesUp, resetVars, wdSleep>>

(* Mutant: the watchdog stops the motors and tells nobody. *)
WatchdogPublishNothing ==
    /\ wd = "stop"
    /\ Sleep
    /\ UNCHANGED <<pc, enabled, latchVars, timerDue, progressAge, stopQueue, canVars, servicesUp,
                   resetVars>>

(* The direct frames sent just before change nothing of this state. *)
WatchdogPublishStop ==
    /\ wd = "stop"
    /\ \E e \in WatchdogEvents : stopQueue' = Enqueue(stopQueue, e)
    /\ Sleep
    /\ UNCHANGED <<pc, enabled, latchVars, timerDue, progressAge, canVars, servicesUp, resetVars>>

----------------------------------------------------------------------------
(* The environment. *)

PeerStop(e) ==
    /\ stopQueue' = Enqueue(stopQueue, e)
    /\ UNCHANGED <<pc, enabled, latchVars, timerDue, progressAge, canVars, servicesUp, resetVars,
                   wdVars>>

FramesOf(s) == IF s = "button" THEN ButtonFrames ELSE {"stop"}

(* The poll loop reads faster than frames come: a frame that arrives while *)
(* its socket is being drained counts as having arrived before or after.   *)
FrameArrives(s, frame) ==
    /\ s \in openSockets
    /\ pc # s
    /\ Len(rx[s]) < MaxRx
    /\ rx' = [rx EXCEPT ![s] = Append(@, frame)]
    /\ UNCHANGED <<pc, enabled, latchVars, timerDue, progressAge, stopQueue, openSockets,
                   heartbeatSeen, heartbeatAge, servicesUp, resetVars, wdVars>>

ServiceComesOrGoes(s) ==
    /\ servicesUp' = IF s \in servicesUp THEN servicesUp \ {s} ELSE servicesUp \cup {s}
    /\ UNCHANGED <<pc, enabled, latchVars, timerDue, progressAge, stopQueue, canVars, resetVars,
                   wdVars>>

(* A hardware node serves clear_safety_stop and re-enables its motors, or  *)
(* refuses.  Two unserved requests of one client are answered together.    *)
ServeClearRequest(c) ==
    /\ c \in asked
    /\ asked' = asked \ {c}
    /\ \E answer \in {"ok", "refused"} : reply' = [reply EXCEPT ![c] = answer]
    /\ UNCHANGED <<pc, enabled, latchVars, timerDue, progressAge, stopQueue, canVars, servicesUp,
                   client, waitLeft, failed, ready, wdVars>>

Blocked == pc \in {"find", "wait"}

Older(age) == IF age < AgeCap THEN age + 1 ELSE age

(* One tick.  A thread that can run does so before time passes: the        *)
(* executor unless it blocks in the reset, the watchdog when its sleep     *)
(* ends.                                                                   *)
Tick ==
    /\ \/ pc = "spin" /\ ~timerDue
       \/ Blocked /\ waitLeft > 0
    /\ wd = "sleep" /\ wdSleep > 0
    /\ timerDue' = TRUE
    /\ waitLeft' = IF Blocked THEN waitLeft - 1 ELSE waitLeft
    /\ wdSleep' = wdSleep - 1
    /\ progressAge' = Older(progressAge)
    /\ zeroAge' = Older(zeroAge)
    /\ heartbeatAge' = Older(heartbeatAge)
    /\ UNCHANGED <<pc, enabled, latched, events, active, missionRequested, fsmRequested,
                   directHealthy, confirmed, watchdogPublished, stopQueue, openSockets, rx,
                   heartbeatSeen, servicesUp, client, failed, asked, reply, ready, wd>>

----------------------------------------------------------------------------

Init ==
    /\ pc = "spin"
    /\ enabled \in BOOLEAN
    /\ latched = FALSE
    /\ events = <<>>
    /\ active = NoEvent
    /\ missionRequested = FALSE
    /\ fsmRequested = FALSE
    /\ directHealthy = TRUE
    /\ confirmed = FALSE
    /\ timerDue = FALSE
    /\ zeroAge = AgeCap
    /\ progressAge = 0
    /\ stopQueue = <<>>
    /\ openSockets = {}
    /\ rx = [s \in Sockets |-> <<>>]
    /\ heartbeatSeen = FALSE
    /\ heartbeatAge = AgeCap
    /\ servicesUp = {}
    /\ client = 0
    /\ waitLeft = 0
    /\ failed = FALSE
    /\ asked = {}
    /\ reply = [c \in Clients |-> "none"]
    /\ ready = {}
    /\ wd = "sleep"
    /\ wdSleep = WatchdogPeriod
    /\ watchdogPublished = FALSE

Executor ==
    \/ OnStopMessage
    \/ \E data \in BOOLEAN : EnableController(data)
    \/ \E c \in Clients : TakeResponse(c)
    \/ OnPublishTimer
    \/ \E s \in Sockets : EndPoll(s) \/ OpenSocket(s) \/ ReadFails(s) \/ ReadFrame(s)
    \/ CheckButtonHeartbeatWatchdog
    \/ RepeatStop
    \/ ResetLatchedStop
    \/ SendClearRequest
    \/ ServiceNotReady
    \/ AwaitResponse

Watchdog ==
    \/ WatchdogWake
    \/ WatchdogExchange
    \/ WatchdogPublishZero
    \/ WatchdogPublishStop

Environment ==
    \/ \E e \in PeerEvents : PeerStop(e)
    \/ \E s \in Sockets : \E frame \in FramesOf(s) : FrameArrives(s, frame)
    \/ \E s \in Reachable : ServiceComesOrGoes(s)
    \/ \E c \in Clients : ServeClearRequest(c)
    \/ Tick

Next == Executor \/ Watchdog \/ Environment

(* The stages of a running callback.  They are always enabled until taken. *)
Stage ==
    \/ \E s \in Sockets : EndPoll(s) \/ ReadFrame(s) \/ ReadFails(s)
    \/ CheckButtonHeartbeatWatchdog
    \/ RepeatStop
    \/ SendClearRequest
    \/ ServiceNotReady
    \/ AwaitResponse

(* The executor serves every entity of a wait set before it collects the   *)
(* next one, so a callback that is ready again and again is run: strong    *)
(* fairness for the subscription and the timer.  A running callback and    *)
(* the watchdog thread go on, and time passes.                             *)
Fairness ==
    /\ SF_vars(OnStopMessage)
    /\ SF_vars(OnPublishTimer)
    /\ WF_vars(Stage)
    /\ WF_vars(Watchdog)
    /\ SF_vars(Tick)

Spec == Init /\ [][Next]_vars
FairSpec == Spec /\ Fairness

----------------------------------------------------------------------------
(* Properties. *)

IsPrefix(s, t) == Len(s) <= Len(t) /\ \A i \in DOMAIN s : s[i] = t[i]

(* The type of every variable of the node. *)
TypeOK ==
    /\ pc \in Sockets \cup {"spin", "heartbeat", "repeat", "find", "wait"}
    /\ enabled \in BOOLEAN /\ latched \in BOOLEAN
    /\ events \in Seq(Events)
    /\ active \in Events \cup {NoEvent}
    /\ missionRequested \in BOOLEAN /\ fsmRequested \in BOOLEAN
    /\ directHealthy \in BOOLEAN /\ confirmed \in BOOLEAN
    /\ timerDue \in BOOLEAN
    /\ zeroAge \in 0..AgeCap /\ progressAge \in 0..AgeCap
    /\ stopQueue \in Seq(Events) /\ Len(stopQueue) <= QueueDepth
    /\ openSockets \subseteq Sockets
    /\ rx \in [Sockets -> Seq(ButtonFrames \cup {"stop"})]
    /\ \A s \in Sockets : rx[s] \in Seq(FramesOf(s))
    /\ heartbeatSeen \in BOOLEAN /\ heartbeatAge \in 0..AgeCap
    /\ servicesUp \subseteq Reachable
    /\ client \in 0..ClearClients /\ (Blocked => client \in Clients)
    /\ waitLeft \in Nat
    /\ failed \in BOOLEAN
    /\ asked \subseteq Clients /\ ready \subseteq Clients
    /\ reply \in [Clients -> {"none", "ok", "refused"}]
    /\ wd \in {"sleep", "exchange", "zero", "stop"}
    /\ wdSleep \in 0..WatchdogPeriod
    /\ watchdogPublished \in BOOLEAN

(* A latched controller is enabled and knows why it stopped: the causes of *)
(* the episode are all there, each once, and the one it reports is the     *)
(* newest (latchStop, clearLatchedStop).                                   *)
LatchHasItsCause ==
    latched => /\ enabled
               /\ events # <<>>
               /\ active = events[Len(events)]
               /\ \A i, j \in DOMAIN events : events[i] = events[j] => i = j

(* A released latch leaves nothing behind that would silence the next      *)
(* episode: no cause, no request already counted as sent, no verdict.      *)
IdleForgetsEpisode ==
    ~latched => /\ events = <<>> /\ active = NoEvent
                /\ ~missionRequested /\ ~fsmRequested
                /\ directHealthy /\ ~confirmed

(* An episode forgets none of its causes (latchStop only appends).         *)
CausesKept == [][latched /\ latched' => IsPrefix(events, events')]_events

(* Only the operator ends an episode: by disabling the controller, or by a *)
(* reset in which every hardware node has answered that it is cleared.     *)
ReleasedOnlyByOperator ==
    [][latched /\ ~latched' => ~enabled' \/ \A c \in Clients : reply[c] = "ok"]_vars

(* In every timer period that the executor is free to work in, a latched   *)
(* controller has published a zero twist (onPublishTimer, latchStop).      *)
HeldWhileFree == latched /\ pc = "spin" /\ ~timerDue => zeroAge = 0

(* The watchdog thread never sleeps through a stall of an enabled node:    *)
(* past the timeout and one check period its flag is up.                   *)
WatchdogNotices ==
    enabled /\ InternalWatchdogEnabled /\ progressAge > WatchdogTimeout + WatchdogPeriod
        => watchdogPublished

(* The stop that the watchdog publishes comes back through the node's own  *)
(* subscription and latches, even when newer stops push it out.            *)
WatchdogStopLatches == (wd = "stop" /\ enabled) ~> (latched \/ ~enabled)

(* A button module that falls silent stops the robot, unless it comes back *)
(* or the operator disables the controller.                                *)
SilentButtonLatches ==
    (enabled /\ ButtonMonitorEnabled /\ HeartbeatLost)
        ~> (latched \/ ~enabled \/ ~HeartbeatLost)

(* The FAULT request is sent in every episode, however late the FSM        *)
(* service comes up (requestFsmFaultState is retried on each timer).       *)
FaultRequested ==
    <>[]("fsm" \in servicesUp) => (latched ~> (fsmRequested \/ ~latched))

(* The controller keeps the promise of StopLatch: queued stops are the     *)
(* pending ones.                                                           *)
Promise == INSTANCE StopLatch
             WITH armed <- enabled, stopped <- latched, pending <- stopQueue # <<>>
KeepsPromise == Promise!Spec

(* Statements of the documentation that the code does not meet. *)

(* "Hardware recovery services called before the latch is cleared": when   *)
(* each of them has answered ok, the reset clears the latch.               *)
ResetClears ==
    [][pc = "wait" /\ pc' = "spin" /\ (\A c \in Clients : reply[c] = "ok") => ~latched']_vars

(* "publishes a safety stop ... if the node stops making progress": also   *)
(* while a stop is latched, whatever stalls the episode has had before, a  *)
(* stall is answered within the timeout and one check period.              *)
StallAnswered ==
    /\ enabled /\ latched /\ stopQueue = <<>>
    /\ progressAge = WatchdogTimeout + WatchdogPeriod + 1
    => zeroAge <= WatchdogPeriod

============================================================================
