# Layer 2 controllers of the AMR Sweeper: a TLA+ verification project

This directory specifies, model-checks and proves properties of the layer 2
controllers (`src/amr_sweeper_*`): the ROS 2 nodes and ros2_control plugins
between the operator, the navigation stack and the sensors above, and the
motor drivers below. Every definition is translated from the C++ (or launch)
source; the comment above it and the `map` of `PROJECT.json` name the lines.

## 1. Inventory

### Components

| component | source | state it keeps | operations |
|---|---|---|---|
| safety controller | `amr_sweeper_safety_controller/src/safety_controller_node.cpp` | enabled flag, stop latch with its causes, flags "already requested" for mission stop and FSM fault, verdict on the motors, CAN sockets, button heartbeat, progress timestamp, watchdog flag | stop subscription, 20 Hz publish timer, status timer, reset / clear / enable services, watchdog thread |
| sweeping controller | `amr_sweeper_sweeping_controller/src/sweeping_controller_node.cpp` | latest command and arrival time of each source (safety, joystick, navigation; for wheels and for tools), web teleop mode and scales | seven subscriptions, 20 Hz arbitration timer |
| drive controller | `amr_sweeper_drive_controller/src/drive_controller.cpp` | latest twist and latest direct command with arrival times, odometry and its latest snapshot | lifecycle callbacks, two subscriptions, realtime `update`, odometry timer |
| tool controller | `amr_sweeper_tool_controller/src/tool_controller.cpp` | latest twist and latest direct command | lifecycle callbacks, two subscriptions, realtime `update` |
| attitude controller | `amr_sweeper_attitude_controller/src/attitude_controller_node.cpp` | last IMU message, estimate, stop supervisor (manual-reset latch), last published stop | IMU subscription, 50 Hz timer, reset / enable services |
| collision detector | `amr_sweeper_collision_detector/src/collision_detector_node.cpp` | last message of each IMU and motor, impact latch, last reported state | subscriptions, 20 Hz timer, status timer, reset / enable services |
| teleop | `amr_sweeper_teleop/launch`, `config` | none (starts `teleop_twist_joy`) | launch file |
| bringup | `_amr_sweeper_layer_2_controllers_bringup/launch` | process start order | launch events |

### Interaction

```
 attitude ──┐ SafetyStop                        Twist
 collision ─┼──────────────► safety controller ───────► sweeping controller ──► drive controller ──► ODrive
 button CAN ┘ (QoS 10,            │    ▲ │                ▲   ▲                 tool controller  ──► Steadydrive
              transient local)    │    │ └─ own stops     │   └ joystick (teleop)
                                  │    └─ CAN feedback    └ navigation/cmd_vel
                                  ├─ CAN e-stop / stop / off frames ────────────────────────────────► ODrive, Steadydrive
                                  ├─ clear_safety_stop (layer 1), end_mission, request_state (layer 0)
                                  └─ operator: reset_latched_stop, enable_controller
```

Every node but the safety controller is one `rclcpp::spin` thread that runs one
callback at a time. The safety controller adds a watchdog thread that shares
the CAN transmit sockets, the enabled flag, the progress timestamp and its own
flag with the executor. The ros2_control plugins run `update` in the realtime
loop of the controller manager and their subscriptions in another thread,
under one mutex.

### What is hard here

* A reset blocks the executor in `wait_for_service` and `future.wait_for`:
  timers, stops and responses wait meanwhile, and the watchdog fires.
* The stop topic keeps the last ten messages and redelivers: stops come twice,
  late, in any order with a release, or are pushed out.
* Services of layers 0 and 1 come and go; requests are retried in each period.
* Every command path is guarded by freshness windows; what holds when a source
  falls silent depends on four timeouts in three processes.
* The stop sources publish on edges only, while the latch they feed is cleared
  by somebody else.
* One of several CAN frames or sockets fails in the middle of a sequence.

### What makes each component correct

* safety controller: a stop that reaches an enabled node latches; only the
  operator releases; an episode knows its causes and starts without traces of
  the last one; zero commands are repeated while latched; the FSM fault is
  requested in each episode; a stall does not go unnoticed; a silent button
  stops the robot.
* sweeping controller: no wheel or tool command passes while a safety stop is
  fresh; what it publishes comes from a fresh source; in one-stick mode the
  tool joystick has no say, and a window after the mode has begun or ended the
  brushes no longer follow who led them before.
* drive and tool controllers: an activated controller never moves on a command
  from before; without fresh commands the wheels and tools get zero; limits hold.
* attitude and collision: what they report stands at the safety controller,
  although they publish changes only and any of the nodes may start late; a
  manual-reset stop stays until it is reset; a danger that lasts is reported.
* the verdicts on the motors: "healthy" means every motor was sent its stop,
  "confirmed" means every motor stood.
* odometry: with position feedback the heading heals after failed reads, and an
  outage at standstill leaves no trace in the position either; nothing of an
  earlier activation is published. (Motion during an outage does leave an error in
  the position, and with velocity feedback, the default, in the heading too.)
* the chain: a latched stop brings wheels and tools to rest within a bound,
  and they stay at rest while its zero twists come; when everybody who commands
  falls silent the wheels stand.

The list `hazards` of `PROJECT.json` names each of these at its line.

## 2. Plan

The modules, in the order of their importance to the system. All are written;
those with a proof module are proved about as section 5 says.

| module | what it is | proofs |
|---|---|---|
| `StopLatch` | the promise of the safety controller, abstractly | |
| `SafetyController` | the node with both threads; implements `StopLatch` | `SafetyControllerProofs` |
| `StopVerification` | the same node on its CAN bus: frames that fail, reports of the motors; implements `SafetyController` | `StopVerificationProofs` |
| `SweepingController` | arbitration, freshness, one-stick mode | `SweepingProofs` |
| `DriveController` | lifecycle, held commands, limits | `DriveControllerProofs` |
| `WheelOdometry` | the same controller with its odometry | `WheelOdometryProofs` |
| `ToolController` | the same for the brushes | `ToolControllerProofs` |
| `AttitudeController`, `CollisionDetector` | the two nodes that ask for stops | `StopSourcesProofs` |
| `StopSources` | either of them beside `StopLatch`, with late starts, crashes and restarts | `StopSourcesProofs` |
| `StopChain` | safety, sweeping and drive controller composed; implements each of them | `StopChainProofs` |

What could be added: several IMUs in `AttitudeController` and runs on larger
instances (section 4 says which bounds are small for cost alone).

## 3. Modules and code

Time is a number of periods in every module. A period begins only when the work
of the last one is done, as the code's timers and loops do when they are not
overrun; the overrun that matters, a reset that blocks the executor of the
safety controller, is modelled with its timer standing still.

### SafetyController and StopLatch

Two threads. `pc` is where the executor thread is: `"spin"` between callbacks,
a polling stage of the publish timer (`"button"`, `"odrive"`, `"steadydrive"`,
`"heartbeat"`, `"repeat"`), or one of the two waits of a reset (`"find"` in
`wait_for_service`, `"wait"` in `future.wait_for`). `wd` is where the watchdog
thread is: asleep, or before one of its three effects (`exchange`, zero twist,
stop event). Each callback that the code runs without waiting is one action;
the timer and the reset are several, because the watchdog, other nodes and time
may get between their parts.

| model | code |
|---|---|
| `enabled`, `latched`, `events`, `active` | `enabled_`, `latched_stop_active_`, `latched_events_`, `active_stop_reason_` |
| `missionRequested`, `fsmRequested` | the two "already requested" flags, retried by `latchStop` and the timer |
| `confirmed`, `directHealthy` | the verdicts on the motors |
| `stopQueue` | the reader history of the stop subscription: `QoS(QueueDepth)`, oldest message pushed out |
| `rx`, `openSockets` | frames waiting in the CAN sockets, and which sockets are open |
| `asked`, `reply`, `ready`, `client`, `failed`, `waitLeft` | requests of the reset, answers of the hardware nodes, answers the executor has dispatched, and the loop over `clear_safety_stop_services` |
| `watchdogPublished`, `progressAge`, `wdSleep` | `internal_watchdog_stop_published_`, the progress timestamp, the sleep of the thread |
| `zeroAge`, `timerDue` | history: periods since the last zero twist; the timer has expired |

A stop is one value (sender and reason). A reason of the watchdog quotes the
elapsed time, so its events are a set of their own. In this module the verdicts
on the motors may be either; `StopVerification` decides them. The status timer
publishes and changes nothing.

`StopLatch` knows three flags: armed, stopped, pending. `KeepsPromise` is the
refinement under `armed <- enabled`, `stopped <- latched`, `pending <- stopQueue
# <<>>`; with its fairness it says that a stop that keeps waiting is answered.

### StopVerification

Every action is an action of `SafetyController` with what it does on the bus,
which is why `VerificationSpec => Spec` is a theorem and every theorem about the
controller carries over.

* Sending: `Chain` is the sequence of frames of one stop, in the order of
  `sendDirectMotorStopCommands`: the stops, then the requests for feedback. The
  first frame that cannot be written ends it; `told` is the set of motors whose
  stop frame has left in this period. The two frames of a Steadydrive motor (stop
  and off) count as one. The watchdog thread sends the same chain.
* Feedback: `mail` is the report about each motor that waits in a socket, read
  by the polls of the publish timer; `slowAge` and `errorAge` are the ages of the
  last report below the threshold and of the last heartbeat with an axis error. A
  report is stamped when it is *read*: after a pause of the node (disabled, or
  blocked in a reset) an old report counts as new. `awake`, the ticks polled
  without a pause, is what the property on `confirmed` needs for that.
* The motors: one motor, `watched`, chosen once, may turn and stand at any time;
  its reports tell the truth at the time they are sent. `stoodAge` is how long ago
  it last stood. A property that holds of any watched motor holds of all.

### SweepingController

One source is a record with the latest command and its age, for wheels and for
tools; a command is the topic it came from and whether it moves anything, which
is all that the properties distinguish. Scaling by zero, the gains and the
constant twist act on "moves anything" (`ScaledTwist`, `ToolMotion`). Each
subscription is an action; `PublishSelectedCommands` is the timer. Two sources of
equal priority are ordered by an unordered map in the code, so `Best` is a set.
The outputs `wheelSent` and `toolSent` last for the period, so that properties
can relate them to what the node holds. `steady` is history: the periods since
one-stick mode last began or ended, whether by a message or because its signal
timed out. The age of the last mode message would not do: the mode lasts only
while that message is renewed.

### DriveController, WheelOdometry, ToolController

`held` (`twist` and `direct` for the tools) are the commands under the mutex,
`wheels` (`brushes`) the values of the command interfaces. Lifecycle callbacks,
`Update` (`ToolUpdate`) and each subscription are actions; commands are accepted
from `on_configure` on, active or not, as the subscriptions are. `set_value` may
be refused per interface (`WritesMayFail`). Velocities are integers: a wheel value
is twice the rim speed, so that half a wheel separation needs no fraction, and
the radius, a factor, is left out; tool components are in fractions of `Unit`.
`stored` (the last write was accepted) and `quiet` (periods since a moving
command was received) are history variables of the properties. The parameters
are those that `on_configure` accepts; its error returns configure nothing.

`WheelOdometry` extends the drive controller with the other half of each
callback, for either value of `position_feedback`, which `OdoConfigure` reads.
Encoders count in integers and a period is one unit of time, so that what is
integrated is exact: the heading is kept times the wheel separation, and `x`, `y`
doubled and times the scale of a table of cosines and sines over `Circle`
directions, along the heading in the middle of the way as in the code
(`Integrate`). What the theorems say of the pose holds of every such table. A value
that cannot be read is zero, as `value_or(0.0)` has it. `publishLatestOdometry` is
two actions, because it copies the snapshot under the lock and publishes without
it. `origin`, `firstRead`, `lastRead`, `failures`, `anchor` (the pose after the last
update that could read both wheels) and `alike` are history variables. The position
has no counterpart of `HeadingHeals`, because none is true: motion while a read
fails is projected along a wrong heading. What is true is `OutageLeavesNoTrace`.

`MC_MotorControllers` runs drive and tool controller in one specification. They
share no state, so that interleaving them would only multiply the states: the
variable `scenario` chooses whether a behavior is about commands of the wheels,
about odometry or about tools. Where it is about commands the wheels are off the
ground and direct commands go straight; where it is about odometry a snapshot is
copied only before the first failed read. The theorems know no scenarios.

### AttitudeController and CollisionDetector

Both nodes are one thread: a subscription per input, a timer, services. An IMU
message in `AttitudeController` is the attitude it stands for, its stamp, and
three flags (invalid; needs a transform; orientation is a rotation). Angles are
integers and `Quantize` rounds them as the code does, halves away from zero. A
stop reason is the set of its parts, since only a change of the reason is
published. `checkImuHealth` is `ImuError`, with ages and grace in periods; that
startup is counted from when ROS time becomes valid is `Baseline`. `tilted` is
history: a stop attitude was evaluated in this life of the node and not reset
since; a restarted node has forgotten it, and so has the variable.

In `CollisionDetector` a message is reduced to whether it reaches its threshold,
whether it is a number and how old its stamp was. The timer sees the last message
of each input only. `struck` is the history variable.

### StopSources

One of the two sources (the constant `Deployments` says which may be looked at,
`launched` which one is) runs beside the safety controller, which is represented
by `StopLatch`: what holds here of the latch holds of every implementation of it,
and `SafetyController` is one. The other source, the button and everybody else are
`PeerAsks` and `SafetyActs`. The topic is transient-local: `stored` says that the
source's publisher keeps a stop, which a safety controller that starts later is
given. The launch file starts the sources at once and the safety controller
later, which is `SourcesInit` and `SafetyStarts`; processes crash and are restarted
by hand (`SourceCrashes`, `SafetyCrashes`, ...) and lose what they kept. `excused`
is history: the operator has released the latch, or armed or disarmed the
controller, since the source published what it reports.

### StopChain

The safety controller, the sweeping controller and the drive controller as they
are, instantiated over common variables: the zero twist of the one is
`HandleSafetyStopCommand` of the next, its output is `OnWheelCommand` of the last.
One tick is a period of all three timers, whose order within the period is open.
Joystick and navigation (`Commanders`) ask for whatever they like, for wheels and
tools; `PublishIdle` is the parameter of that name, false by default
(`sweeping_controller_node.cpp:66`) and as shipped (yaml line 6), and then nothing is
delivered in a period without a fresh source (`Deliver`). There are no direct
commands and no refused writes in the chain (`DriveController` by itself has both).
`settled` counts the periods through which the latch held with fresh zero twists.

With `PublishIdle` false and `DriveWindow` 0 (a timeout that `on_configure` accepts as
"always fresh") nothing stops the wheels when the last commander falls silent: they
keep the last twist for ever. `CommandDeadman` therefore asks for a positive
`DriveWindow`; as shipped it is 0.5 s. `StopRestsWheels` and `StopRestsTools` do not: they
are proved for 0 too.

A stop with its resets and all commanders at once are too many states.
`MC_StopChain` chooses what a behavior is about (`scenario`): the navigation and
stops with their resets, the joystick and stops that nobody resets, or both
commanders without stops. Who is stopped asks for motion only, the drive controller
is not deactivated under the navigation, and the polling stages of a node without
sockets are run in one go. The theorems know no scenarios.

## 4. Runs

| run | question | bounds, and why they are enough |
|---|---|---|
| `sc_latch` | are episodes sound, is the FAULT requested, does a silent button stop the robot, is the promise kept? | one peer, a queue of one, one frame per socket, heartbeat timeout of one tick; the peer's and the button's stop are two causes, so episodes have several; the queue overflows, the FSM service and the button socket come and go |
| `sc_watchdog` | does the watchdog's stop come back and latch; is every stall noticed; who releases the latch? | two hardware services, waits of one and two ticks: longer than the watchdog timeout of one |
| `sv_feedback` | is a confirmed stop real, is a healthy one complete? | one wheel, one brush, a stale window of zero: the verdict may be one tick old at most, and every extra tick shows |
| `sw_arbitration` | does a fresh stop win, for both outputs together; whom do the brushes follow? | three sources, windows of one period for sources and mode signal, ages up to two: one more than a window, which is when a leader of before must be gone; one-stick mode may be renewed for ever |
| `motors` | when do wheels and brushes stand, who commands them, how fast at most; what does the odometry say? | speeds beyond, at and below the limit in both directions, windows of one and two, failing writes, both kinds of feedback, up to two failed reads in an activation, encoders up to two and eight directions: enough to move, turn, lose reads, move on and read again |
| `stop_sources` | does a reported stop stand whoever starts late or crashes; are tilts and impacts remembered; can rounding hide a tilt; does a lasting danger stop the robot? | six messages (level, warning, tilt by rounding only, tilt in both axes behind a transform, invalid, stale), one IMU and one motor for impacts, ages up to three |
| `stop_chain` | how soon do wheels and brushes rest, and do they stay at rest while the zero twists come; do the wheels outlive those who command them? | the stop source is fresh for one period, joystick and navigation for the period of their message only (0). The drive controller holds a twist for two: one from before the stop is still fresh when the wheels must rest, so that its own timeout does not bring them to rest. `PublishIdle` is false as shipped. Ages up to three, one more than the windows of a commander and the drive controller together; a reset that waits pauses the zero twists for longer than the window of the stop source |

Five runs state what the documentation says and the code does not do; each is a
finding in `PROJECT.json` with the quoted line.

| run | the code |
|---|---|
| `sc_reset_clears` | a reset with a hardware service never succeeds: the callback waits for an answer that only its own executor could take |
| `sc_stall_answered` | the watchdog answers only the first stall of an episode: a stop latches, a reset blocks the executor, the watchdog answers and its stop joins the episode; a second reset that blocks is answered by nothing |
| `ch_latched_rests` | while a reset waits, the zero twists pause, the stop source of the sweeping controller lapses and the navigation turns the wheels of a latched robot |
| `sw_constant_twist` | in one-stick mode an idle stick hands the wheels to the navigation but not the tools: the robot drives with its brushes at rest |
| `tc_saturation` | a saturated tool twist drives one brush at twice the configured maximum |

Bounds that are small for cost alone: two peers in `sc_latch`, a stale window
above zero in `sv_feedback`, and the mission stop (`MissionStopEnabled`), which no
run switches on; web teleop in the chain (`WebTeleop`), which `sw_arbitration` has. The
theorems of section 5 cover them. `sv_feedback` and
`ConfirmedIsReal` leave out requests that another node sends to an ODrive for its
encoder estimates (`"request"`): the code takes such a request for an answer with
speed zero, so on a bus where somebody polls, a confirmed stop of a wheel means
nothing (that of a brush does: `ConfirmedBrushesStand`); with `"request"` in `OdriveReports`
TLC shows it at once.
Symmetry is not used: the peers are one value, and the priorities tell the sources
apart. Deadlock is checked in every run.

### Fairness

`SafetyController`: `rclcpp::spin` serves every entity of a wait set before it
collects the next, so a subscription or timer that is ready again and again is
run: `SF` for `OnStopMessage` and `OnPublishTimer`. A running callback and the
watchdog thread go on: `WF` for `Stage` and `Watchdog`. Time passes: `SF` for
`Tick`, which the other actions may disable again. Nothing is assumed of the
operator, of other nodes, of the CAN bus or of the services; `FaultRequested` asks
only that the FSM service is up for good from some time on.

`StopSources`: the timer of a source that runs fires and is served (`WF` for
`PeriodPasses` and `RunTimer`), and an armed controller takes a stop that waits
(`WF` for `TakeStop`), which is what `StopLatch` promises and `KeepsPromise` checks
of `SafetyController`. Crashes, restarts, messages and the operator are free;
`DangerStops` therefore asks that source and controller stay up and armed from
some time on.

## 5. Proofs

All theorems hold for every value of the constants under the named assumptions
of the module (timeouts below the age cap, flags Boolean, priorities integers,
no event called "none"). The rest of this section says along which argument.

* `SafetyControllerProofs`. `TypeCorrect` by one step per action. `ExecutorInv`
  (a polling stage runs only in an enabled node that has just noted progress,
  and no answer is dispatched while the reset waits) is what makes the single
  thread visible to the prover; `LatchHasItsCause`, `IdleForgetsEpisode`,
  `CausesKept` and `ReleasedOnlyByOperator` follow from it and from a lemma that
  sorts every step into latching, clearing, repeating and the rest.
  `ResetNeverReleases` is the finding `sc_reset_clears` for every configuration
  with a hardware service. `HeldWheneverFree` needs `HeldInv`, which also speaks
  of the stages before the executor is back at `"spin"`; `EveryStallNoticed`
  needs `NoticeInv`, an inequality between the age of the progress and what is
  left of the watchdog's sleep. `ImplementsStopLatch` is the safety part of the
  refinement: initial states and steps.
* `StopVerificationProofs`. `VerificationImplementsSafety` carries the theorems
  above to the detailed module, for any motors. `BusInv` makes the verdicts
  inductive: a report that waits is of this period, or of the last one and about
  to be read, unless the node has paused (`MailIsRecent`); a stamp is at most one
  period younger than what it tells of (`StampIsRecent`); and the verdicts of a
  served period are about this period (`VerdictsAreNew`, an invariant of its own,
  since it needs nothing of the reports). `HealthyIsHonest` follows from the last
  alone. `ConfirmedIsReal` follows where no other node requests encoder estimates,
  and `ConfirmedBrushesStand` where one does, because a request to a Steadydrive is
  told from its answer; one lemma serves both (`ConfirmedSpeaker`: what is read
  about the watched motor comes from it).
* `SweepingProofs`. `HeldInv` describes what the node holds: which topic may
  stand behind which source, that both stop sources hold the same stop, and
  (`LeaderLeft`) that what one leader left with the tools is older than the mode
  that gave them to the other. Nothing published is in it: `FreshStopWins` (for
  stop priorities strictly above the others), `StopsHoldTogether` (also for equal
  windows), `BrushesFollowOneLeader` and `ToolJoystickSilenced` follow for the step
  of the timer, and every other step leaves the outputs alone, silences them or
  renews what they are compared with.
* `DriveControllerProofs` and `ToolControllerProofs`. The dead man's switch is not
  inductive: `HeldIsHeard` adds that a moving command that is held is at least as
  old as the silence, and `OnlyActiveUpdated` that no period of an inactive
  controller is waiting for `update` (`RestInv`, `ToolRestInv`). That a direct stop
  preempts twists and that the chassis ceiling holds are inductive with the types;
  the latter rests on a lemma about products with a bounded factor.
  `BrushCeilingHolds` is the positive side of the finding `tc_saturation`: twice the
  maximum is what a clamped twist can reach and no more, unless a direct command
  asks for it.
* `WheelOdometryProofs`. `OdoInv` adds to the types that the sums telescope: with
  position feedback the heading is that of the previous reading less the first
  (`TurnsTelescope`), with velocity feedback that of the motion as long as no read has
  failed (`TurnsCounted`); that the previous reading is where the wheels are, if they
  could be read (`LastReadIsHere`); and where the pose is during an outage whose reads
  are alike (`AnchorHolds`). `HeadingHealed` follows for every geometry and every pattern
  of failed reads after the first. `OutagesLeaveNoTrace` rests on the symmetry of the
  midpoint: the way back is projected along the heading of the way there. It needs
  nothing of the tables of cosine and sine. `SnapshotsAreCurrent` comes beside them.
  `OdometryImplementsDrive` carries the theorems about `DriveController` over.
* `StopSourcesProofs`. `TiltInv` relates the history of a tilt to the supervisor's
  latch (`TiltLatched`); `StopInv` adds that a source that reports keeps its stop
  stored (`ReportedIsStored`), which is what a late or restarted safety controller
  is given. `ReportedStopsStand` holds across every crash and restart of either
  node. `TiltIsRemembered` and `ImpactIsRemembered` are about one life of the node that
  remembers: a restarted one has forgotten what nobody had reset. The first says that
  the supervisor keeps the tilt also while the attitude is unknown, and that it is
  reported whenever the estimate is healthy. `LargeTiltsReported` rests on a lemma about the
  division in `Quantize` (`HalfStep`: the rounded angle is within half a step).
* `StopChainProofs`. The composition implements each of the three controllers
  (`ChainImplementsSafety`, `ChainImplementsSweeping`, `ChainImplementsDriving`), so
  that their invariants are invariants of the chain: a step of one node is a step of
  its own specification and a stutter of the other two. On top of them `ChainInv`
  follows the stop from node to node: while `settled` counts, the stop source holds a
  zero that is fresh; then the arbitration has published a standing twist; then every
  twist that the drive controller holds is a standing one. `StopRestsWheels` and
  `StopRestsTools` are its last links. `WheelsDoNotOutliveCommanders` follows a command
  the same way: while the drive controller holds a twist that moves, some commander
  was fresh when it was sent (`Sender`), so the two windows add up. It holds for every
  set of commanders, with idle commands or without. `WithoutClientsRestLasts` concludes
  that without hardware services the rest lasts until the release: the reset that
  waits for hardware is all there is behind the finding `ch_latched_rests`. It has
  that hypothesis (`ClearClients = 0`) because the finding is real without it.

Model-checked only: all liveness (`FaultRequested`, `SilentButtonLatches`,
`WatchdogStopLatches`, `DangerStops` and the fairness part of `KeepsPromise`), which
is out of the prover's reach. The findings are shown by counterexamples. Every
safety property that a passing run checks is stated by a theorem; the types of
`StopChain`, which are those of its parts, are proved only (`ChainTypeCorrect`).

## 6. Not modelled

* Status and diagnostics messages: no state depends on them. Their reading of
  the state of other threads is listed under `hazards`.
* The bytes of CAN frames; a frame is what the checks distinguish of it.
* The average over several IMUs, and the transform that the attitude controller
  publishes (with what `hold_last_transform` keeps for it).
* Real arithmetic: cosines and sines come from a table of finitely many directions,
  and rounding errors do not add up as in floating point. The velocities in the
  odometry message are left out.
* `amr_sweeper_teleop`: configuration of foreign nodes, no state. Of the bringup
  only the start order is modelled; which nodes are started with which arguments
  is configuration.
* Data races on plain members shared by the two threads of the safety
  controller (`enabled_`, the failure message of the direct stop): the model
  reads the flag at any time between two writes; the message is not modelled.
