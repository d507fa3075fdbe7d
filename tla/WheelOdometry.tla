--------------------------- MODULE WheelOdometry ---------------------------
(***************************************************************************)
(* The odometry of the drive controller: update integrates what the state  *)
(* interfaces of the wheels say, and a timer in another thread publishes   *)
(* the latest snapshot.                                                    *)
(*                                                                         *)
(* The actions are those of DriveController with their other half.  An     *)
(* encoder counts in integers and a period lasts one unit of time.  The    *)
(* heading is kept times the wheel separation, and the position times the  *)
(* scale of the cosine, doubled; the circle has finitely many directions.  *)
(***************************************************************************)
EXTENDS DriveController

CONSTANTS
    LeftRadius, RightRadius,  \* wheel_radius_ times the multiplier of the wheel
    Circle,                   \* directions of the circle: units of twice the heading
    Cosine, Sine,             \* of each direction, in fixed point
    Turns,                    \* what a wheel may turn in a period
    MaxFailures,              \* bound: updates of an activation that cannot read a wheel
    EncoderCap                \* bound: positions of the encoders

ASSUME OdometryAssumption ==
    /\ LeftRadius \in Nat \ {0} /\ RightRadius \in Nat \ {0}
    /\ Turns \subseteq Int /\ 0 \in Turns /\ EncoderCap \in Nat /\ MaxFailures \in Nat
ASSUME CircleAssumption ==
    /\ Circle \in Nat \ {0}
    /\ Cosine \in [0 .. Circle - 1 -> Int] /\ Sine \in [0 .. Circle - 1 -> Int]

VARIABLES
    encoders,          \* environment: where the wheels are
    turned,            \* environment: what they turned in the last period
    positionFeedback,  \* position_feedback_
    initialized,       \* odometry_initialized_
    previous,          \* previous_left_position_rad_, previous_right_position_rad_
    heading,           \* heading_ times the separation
    x, y,              \* x_, y_ times the scale of the cosine, doubled
    snapshot,          \* latest_odometry_snapshot_
    publishing,        \* odom_publish_timer_ is not cancelled
    copied,            \* the local snapshot of publishLatestOdometry
    origin,            \* history: where the encoders were at the first update
    firstRead,         \* history: the first update could read both wheels
    lastRead,          \* history: so could the last one
    failures,          \* history: how many updates of this activation could not
    anchor,            \* history: the encoders and the pose after the last update that could
    alike              \* history: the updates since then all read the same positions

pose == <<heading, x, y>>
readVars == <<origin, firstRead, lastRead, failures, anchor, alike>>
odometryVars == <<initialized, previous, pose, snapshot, readVars>>
encoderVars == <<encoders, turned>>
odoVars == <<driveVars, positionFeedback, odometryVars, encoderVars, publishing, copied>>

Abs(n) == IF n < 0 THEN -n ELSE n

AtZero == [w \in Wheels |-> 0]
NoSnapshot == [valid |-> FALSE, heading |-> 0, x |-> 0, y |-> 0, current |-> FALSE]
NoAnchor == [valid |-> FALSE, at |-> AtZero, heading |-> 0, x |-> 0, y |-> 0]

----------------------------------------------------------------------------

(* No update of this activation has read the wheels yet. *)
ForgetReads ==
    /\ origin' = AtZero /\ firstRead' = TRUE /\ lastRead' = TRUE
    /\ failures' = 0 /\ anchor' = NoAnchor /\ alike' = TRUE

(* Mutant: the snapshot of an earlier activation stays. *)
ResetButKeepSnapshot ==
    /\ initialized' = FALSE
    /\ previous' = AtZero
    /\ heading' = 0 /\ x' = 0 /\ y' = 0
    /\ snapshot' = [snapshot EXCEPT !.current = FALSE]
    /\ ForgetReads

ResetOdometryState ==
    /\ initialized' = FALSE
    /\ previous' = AtZero
    /\ heading' = 0 /\ x' = 0 /\ y' = 0
    /\ snapshot' = NoSnapshot
    /\ ForgetReads

(* get_optional().value_or(0.0) *)
ReadOut(value, ok) == [w \in Wheels |-> IF ok[w] THEN value[w] ELSE 0]

(* Mutant: a position that cannot be read is skipped, but not its motion. *)
WayForgetful(positions, ok) ==
    [w \in Wheels |-> IF ok[w] /\ lastRead THEN positions[w] - previous[w] ELSE 0]

(* What integrateWheelPositions sees of the wheels. *)
Way(positions, ok) == [w \in Wheels |-> positions[w] - previous[w]]

(* delta_heading times the separation, and twice delta_linear. *)
Turn(way) == RightRadius * way["right"] - LeftRadius * way["left"]
Advance(way) == RightRadius * way["right"] + LeftRadius * way["left"]

(* Mutant: the way is projected along the heading at its beginning. *)
IntegrateFromStart(way) ==
    /\ x' = x + Advance(way) * Cosine[(2 * heading) % Circle]
    /\ y' = y + Advance(way) * Sine[(2 * heading) % Circle]
    /\ heading' = heading + Turn(way)

(* The way is projected along the heading in its middle. *)
Integrate(way) ==
    LET midpoint == (2 * heading + Turn(way)) % Circle
    IN  /\ x' = x + Advance(way) * Cosine[midpoint]
        /\ y' = y + Advance(way) * Sine[midpoint]
        /\ heading' = heading + Turn(way)

(* What the histories note of an update. *)
NoteRead(positions, readable) ==
    /\ origin' = IF initialized THEN origin ELSE encoders
    /\ firstRead' = IF initialized THEN firstRead ELSE readable
    /\ lastRead' = readable
    /\ IF readable
       THEN /\ anchor' = [valid |-> TRUE, at |-> encoders,
                          heading |-> heading', x |-> x', y |-> y']
            /\ alike' = TRUE
            /\ UNCHANGED failures
       ELSE /\ failures < MaxFailures /\ failures' = failures + 1
            /\ alike' = (alike /\ (lastRead \/ positions = previous))
            /\ UNCHANGED anchor

UpdateOdometry(ok) ==
    LET positions == ReadOut(encoders, ok)
    IN  /\ initialized' = TRUE
        /\ IF ~initialized
           THEN previous' = positions /\ UNCHANGED pose
           ELSE IF positionFeedback
           THEN previous' = positions /\ Integrate(Way(positions, ok))
           ELSE UNCHANGED previous /\ Integrate(ReadOut(turned, ok))
        /\ snapshot' = [valid |-> TRUE, heading |-> heading', x |-> x', y |-> y',
                        current |-> TRUE]
        /\ NoteRead(positions, \A w \in Wheels : ok[w])

----------------------------------------------------------------------------
(* The callbacks of DriveController, with their other half. *)

(* The parameter position_feedback is read here. *)
OdoConfigure ==
    /\ OnConfigure
    /\ ResetOdometryState
    /\ positionFeedback' \in BOOLEAN
    /\ publishing' = FALSE
    /\ UNCHANGED <<encoderVars, copied>>

OdoActivate ==
    /\ OnActivate
    /\ ResetOdometryState
    /\ publishing' = TRUE
    /\ UNCHANGED <<positionFeedback, encoderVars, copied>>

(* cancel does not wait for a callback that runs. *)
OdoDeactivate ==
    /\ OnDeactivate
    /\ publishing' = FALSE
    /\ UNCHANGED <<positionFeedback, odometryVars, encoderVars, copied>>

OdoUpdate ==
    /\ Update
    /\ \E ok \in [Wheels -> BOOLEAN] : UpdateOdometry(ok)
    /\ UNCHANGED <<positionFeedback, encoderVars, publishing, copied>>

OdoCommand ==
    /\ \E linear, angular \in Speeds :
          OnWheelCommand(linear, angular) \/ OnDirectCommand(linear, angular)
    /\ UNCHANGED <<positionFeedback, odometryVars, encoderVars, publishing, copied>>

(* The wheels turn, whoever turns them. *)
OdoPeriod ==
    /\ Period
    /\ turned' \in [Wheels -> Turns]
    /\ encoders' = [w \in Wheels |-> encoders[w] + turned'[w]]
    /\ \A w \in Wheels : Abs(encoders'[w]) <= EncoderCap
    /\ UNCHANGED <<positionFeedback, odometryVars, publishing, copied>>

(* publishLatestOdometry copies the snapshot under the lock ... *)
CopySnapshot ==
    /\ publishing
    /\ ~copied.valid
    /\ snapshot.valid
    /\ copied' = snapshot
    /\ UNCHANGED <<driveVars, positionFeedback, odometryVars, encoderVars, publishing>>

(* ... and publishes the copy without it. *)
PublishOdometry ==
    /\ copied.valid
    /\ copied' = NoSnapshot
    /\ UNCHANGED <<driveVars, positionFeedback, odometryVars, encoderVars, publishing>>

----------------------------------------------------------------------------

OdoInit ==
    /\ Init
    /\ encoders = AtZero /\ turned = AtZero
    /\ initialized = FALSE
    /\ previous = AtZero
    /\ heading = 0 /\ x = 0 /\ y = 0
    /\ positionFeedback = FALSE
    /\ snapshot = NoSnapshot /\ copied = NoSnapshot
    /\ publishing = FALSE
    /\ origin = AtZero /\ firstRead = TRUE /\ lastRead = TRUE
    /\ failures = 0 /\ anchor = NoAnchor /\ alike = TRUE

OdoNext ==
    \/ OdoConfigure \/ OdoActivate \/ OdoDeactivate
    \/ OdoUpdate
    \/ OdoCommand
    \/ OdoPeriod
    \/ CopySnapshot \/ PublishOdometry

OdoSpec == OdoInit /\ [][OdoNext]_odoVars

----------------------------------------------------------------------------
(* Properties. *)

Snapshot == [valid : BOOLEAN, heading : Int, x : Int, y : Int, current : BOOLEAN]
Anchor == [valid : BOOLEAN, at : [Wheels -> Int], heading : Int, x : Int, y : Int]

(* The type of every variable of the controller. *)
OdoTypeOK ==
    /\ TypeOK
    /\ encoders \in [Wheels -> Int] /\ turned \in [Wheels -> Int]
    /\ previous \in [Wheels -> Int] /\ origin \in [Wheels -> Int]
    /\ heading \in Int /\ x \in Int /\ y \in Int
    /\ snapshot \in Snapshot /\ copied \in Snapshot
    /\ positionFeedback \in BOOLEAN /\ initialized \in BOOLEAN /\ publishing \in BOOLEAN
    /\ firstRead \in BOOLEAN /\ lastRead \in BOOLEAN /\ alike \in BOOLEAN
    /\ failures \in 0..MaxFailures /\ anchor \in Anchor

(* With position feedback the heading heals: once update can read the      *)
(* wheels it is exactly what they turned since the first update, whatever  *)
(* reads failed in between, if the first update could read them.  With     *)
(* velocity feedback a failed read is lost, and the heading is right as    *)
(* long as none has failed (integrateWheelPositions, integrateWheel-       *)
(* Velocities, value_or(0.0)).  The position has no such property: what    *)
(* the wheels travel while a read fails is projected along a wrong heading.*)
HeadingHeals ==
    /\ lifecycle = "active" /\ ~updateDue /\ initialized
    /\ IF positionFeedback THEN firstRead /\ lastRead ELSE failures = 0
    => heading = Turn([w \in Wheels |-> encoders[w] - origin[w]])

(* With position feedback an outage leaves no trace in the pose, neither   *)
(* in the heading nor in the position, if its reads all gave the same and  *)
(* the wheels are where they were when they can be read again: the way     *)
(* back is projected along the midpoint of the way there                   *)
(* (integrateWheelPositions).                                              *)
OutageLeavesNoTrace ==
    [][OdoUpdate /\ positionFeedback /\ lastRead'
          /\ anchor.valid /\ alike /\ encoders = anchor.at
       => pose' = <<anchor.heading, anchor.x, anchor.y>>]_odoVars

(* What a timer callback finds to publish was measured since the last      *)
(* activation, and is the odometry the controller holds (resetOdometry-    *)
(* State, publishLatestOdometry).                                          *)
SnapshotIsCurrent ==
    snapshot.valid => /\ snapshot.current /\ initialized
                      /\ <<snapshot.heading, snapshot.x, snapshot.y>> = pose

=============================================================================
