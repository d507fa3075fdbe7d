------------------------ MODULE WheelOdometryProofs ------------------------
(***************************************************************************)
(* Theorems about WheelOdometry, for all radii, turns, commands and        *)
(* geometries, with reads and writes that fail or not.                     *)
(***************************************************************************)
EXTENDS WheelOdometry, DriveControllerProofs

(***************************************************************************)
(* The strengthening that makes HeadingHeals inductive: with position      *)
(* feedback the turns telescope to the positions last read, right or       *)
(* wrong, and those are right when the last update of the period could     *)
(* read them; with velocity feedback and no failed read they add up to     *)
(* what the encoders counted, but for the period whose update is due.      *)
(***************************************************************************)
Between(there, here) == [w \in Wheels |-> there[w] - here[w]]

TurnsTelescope ==
    /\ ~initialized => heading = 0
    /\ positionFeedback /\ initialized /\ firstRead => heading = Turn(Between(previous, origin))

TurnsCounted ==
    ~positionFeedback /\ initialized /\ failures = 0 /\ lifecycle = "active" =>
        heading = Turn(Between(encoders, origin)) - (IF updateDue THEN Turn(turned) ELSE 0)

LastReadIsHere ==
    /\ positionFeedback /\ lifecycle = "active" /\ ~updateDue
    /\ initialized /\ lastRead
    => previous = encoders

(* The pose of an anchor, moved by one way from there to other positions.  *)
PoseAfter(from, there) ==
    LET way == Between(there, from.at)
        midpoint == (2 * from.heading + Turn(way)) % Circle
    IN  <<from.heading + Turn(way),
          from.x + Advance(way) * Cosine[midpoint],
          from.y + Advance(way) * Sine[midpoint]>>

(* During an outage whose reads are all alike, the pose is that of the     *)
(* anchor moved by one way to what is read.                                *)
AnchorHolds ==
    /\ anchor.valid => initialized
    /\ positionFeedback /\ anchor.valid => (lastRead => previous = anchor.at)
    /\ positionFeedback /\ anchor.valid /\ alike => pose = PoseAfter(anchor, previous)

OdoInv == OdoTypeOK /\ TurnsTelescope /\ TurnsCounted /\ LastReadIsHere /\ AnchorHolds

----------------------------------------------------------------------------
(* Lemmas about the operators. *)

(* Two ways in a row make one. *)
LEMMA WaysAdd ==
    ASSUME NEW r \in Int, NEW a \in Int, NEW b \in Int, NEW c \in Int
    PROVE  r * (a - b) \in Int /\ r * (b - c) + r * (a - b) = r * (a - c)
  OBVIOUS

(* Ways turn and advance the chassis by integers. *)
LEMMA WayType ==
    ASSUME NEW way \in [Wheels -> Int]
    PROVE  Turn(way) \in Int /\ Advance(way) \in Int
<1>1. RightRadius \in Int /\ LeftRadius \in Int /\ way["right"] \in Int /\ way["left"] \in Int
  BY OdometryAssumption DEF Wheels
<1>2. RightRadius * way["right"] \in Int /\ LeftRadius * way["left"] \in Int
  BY <1>1
<1> QED BY <1>2 DEF Turn, Advance

(* The way between two places is one of integers. *)
LEMMA BetweenType ==
    ASSUME NEW there \in [Wheels -> Int], NEW here \in [Wheels -> Int]
    PROVE  Between(there, here) \in [Wheels -> Int]
  BY DEF Between

(* The turn of a way and of the next one add up to that of both.           *)
LEMMA TurnsAdd ==
    ASSUME NEW a \in [Wheels -> Int], NEW b \in [Wheels -> Int], NEW c \in [Wheels -> Int]
    PROVE  /\ Turn(Between(b, c)) + Turn(Between(a, b)) = Turn(Between(a, c))
           /\ Advance(Between(b, c)) + Advance(Between(a, b)) = Advance(Between(a, c))
<1> DEFINE r1 == RightRadius * (b["right"] - c["right"])
           r2 == RightRadius * (a["right"] - b["right"])
           r3 == RightRadius * (a["right"] - c["right"])
           l1 == LeftRadius * (b["left"] - c["left"])
           l2 == LeftRadius * (a["left"] - b["left"])
           l3 == LeftRadius * (a["left"] - c["left"])
<1>1. /\ RightRadius \in Int /\ LeftRadius \in Int
      /\ \A w \in {"left", "right"} : a[w] \in Int /\ b[w] \in Int /\ c[w] \in Int
  BY OdometryAssumption DEF Wheels
<1>2. /\ r1 \in Int /\ r2 \in Int /\ r3 \in Int /\ r1 + r2 = r3
      /\ l1 \in Int /\ l2 \in Int /\ l3 \in Int /\ l1 + l2 = l3
  BY <1>1, WaysAdd
<1>3. /\ Turn(Between(b, c)) = r1 - l1 /\ Turn(Between(a, b)) = r2 - l2
      /\ Turn(Between(a, c)) = r3 - l3
      /\ Advance(Between(b, c)) = r1 + l1 /\ Advance(Between(a, b)) = r2 + l2
      /\ Advance(Between(a, c)) = r3 + l3
  BY DEF Turn, Advance, Between, Wheels
<1> HIDE DEF r1, r2, r3, l1, l2, l3
<1> QED BY <1>2, <1>3

(* Standing still turns and advances nothing. *)
LEMMA NoWay ==
    ASSUME NEW a \in [Wheels -> Int]
    PROVE  Turn(Between(a, a)) = 0 /\ Advance(Between(a, a)) = 0
  BY TurnsAdd, WayType, BetweenType

(* The way back undoes the way there. *)
LEMMA WayBack ==
    ASSUME NEW a \in [Wheels -> Int], NEW b \in [Wheels -> Int]
    PROVE  /\ Turn(Between(b, a)) = -Turn(Between(a, b))
           /\ Advance(Between(b, a)) = -Advance(Between(a, b))
<1>1. /\ Turn(Between(b, a)) + Turn(Between(a, b)) = Turn(Between(a, a))
      /\ Advance(Between(b, a)) + Advance(Between(a, b)) = Advance(Between(a, a))
  BY TurnsAdd
<1>2. Turn(Between(a, a)) = 0 /\ Advance(Between(a, a)) = 0
  BY NoWay
<1>3. /\ Turn(Between(a, b)) \in Int /\ Turn(Between(b, a)) \in Int
      /\ Advance(Between(a, b)) \in Int /\ Advance(Between(b, a)) \in Int
  BY WayType, BetweenType
<1> QED BY <1>1, <1>2, <1>3

(* Every midpoint is a direction of the circle, and the cosine and the     *)
(* sine of one are integers.                                               *)
LEMMA MidpointType ==
    ASSUME NEW angle \in Int
    PROVE  Cosine[angle % Circle] \in Int /\ Sine[angle % Circle] \in Int
<1>1. angle % Circle \in 0 .. Circle - 1
  BY CircleAssumption
<1> QED BY <1>1, CircleAssumption

(* What a way does to a coordinate is an integer, and the way back along   *)
(* the same direction undoes it.                                           *)
LEMMA ProjectionType ==
    ASSUME NEW a \in Int, NEW c \in Int, NEW p \in Int
    PROVE  /\ a * c \in Int /\ p + a * c \in Int
           /\ a = 0 => p + a * c = p
           /\ (p + a * c) + (-a) * c = p
  OBVIOUS

(* What the interfaces give is integers, and the values when all are read. *)
LEMMA ReadOutFacts ==
    ASSUME NEW value \in [Wheels -> Int], NEW ok \in [Wheels -> BOOLEAN]
    PROVE  /\ ReadOut(value, ok) \in [Wheels -> Int]
           /\ (\A w \in Wheels : ok[w]) => ReadOut(value, ok) = value
  BY DEF ReadOut

(* The wheels at zero are positions. *)
LEMMA ZeroTypes ==
    AtZero \in [Wheels -> Int] /\ NoSnapshot \in Snapshot /\ NoAnchor \in Anchor
<1>1. AtZero \in [Wheels -> Int] /\ NoSnapshot \in Snapshot
  BY DEF AtZero, NoSnapshot, Snapshot
<1> QED BY <1>1 DEF NoAnchor, Anchor

(* The types of the histories. *)
ReadsType ==
    /\ origin \in [Wheels -> Int] /\ firstRead \in BOOLEAN /\ lastRead \in BOOLEAN
    /\ failures \in 0..MaxFailures /\ anchor \in Anchor /\ alike \in BOOLEAN

(* A reset leaves every variable of the odometry with its type. *)
LEMMA ResetType ==
    ASSUME ResetOdometryState
    PROVE  /\ previous' \in [Wheels -> Int] /\ heading' \in Int /\ x' \in Int /\ y' \in Int
           /\ snapshot' \in Snapshot /\ initialized' \in BOOLEAN
           /\ ReadsType'
<1>1. previous' = AtZero /\ snapshot' = NoSnapshot /\ origin' = AtZero /\ anchor' = NoAnchor
  BY DEF ResetOdometryState, ForgetReads
<1>2. heading' = 0 /\ x' = 0 /\ y' = 0 /\ initialized' = FALSE
  BY DEF ResetOdometryState
<1>3. firstRead' = TRUE /\ lastRead' = TRUE /\ alike' = TRUE /\ failures' \in 0..MaxFailures
  BY OdometryAssumption DEF ResetOdometryState, ForgetReads
<1>4. ReadsType'
  <2>1. origin' \in [Wheels -> Int] /\ anchor' \in Anchor
    BY <1>1, ZeroTypes, Zenon
  <2>2. firstRead' \in BOOLEAN /\ lastRead' \in BOOLEAN /\ alike' \in BOOLEAN
    BY <1>3
  <2> QED BY <1>3, <2>1, <2>2 DEF ReadsType
<1>5. previous' \in [Wheels -> Int] /\ snapshot' \in Snapshot
  BY <1>1, ZeroTypes, Zenon
<1>6. heading' \in Int /\ x' \in Int /\ y' \in Int
  BY <1>2
<1>7. initialized' \in BOOLEAN
  BY <1>2, Zenon
<1> QED BY <1>4, <1>5, <1>6, <1>7, Zenon

(* Integrating a way of integers keeps the pose integers. *)
LEMMA IntegrateType ==
    ASSUME NEW way \in [Wheels -> Int], heading \in Int, x \in Int, y \in Int, Integrate(way)
    PROVE  heading' \in Int /\ x' \in Int /\ y' \in Int
<1> DEFINE midpoint == (2 * heading + Turn(way)) % Circle
<1>1. Turn(way) \in Int /\ Advance(way) \in Int
  BY WayType
<1>2. Cosine[midpoint] \in Int /\ Sine[midpoint] \in Int
  BY <1>1, MidpointType
<1>3. /\ x' = x + Advance(way) * Cosine[midpoint] /\ y' = y + Advance(way) * Sine[midpoint]
      /\ heading' = heading + Turn(way)
  BY DEF Integrate
<1> HIDE DEF midpoint
<1> QED BY <1>1, <1>2, <1>3, ProjectionType

(* Every step is one of the controller below, or leaves it alone. *)
LEMMA OdoStepBelow == [OdoNext]_odoVars => [Next]_driveVars
  BY DEF OdoNext, odoVars, Next, OdoConfigure, OdoActivate, OdoDeactivate, OdoUpdate,
     OdoCommand, OdoPeriod, CopySnapshot, PublishOdometry

(* So what holds of the controller holds of it with its odometry, whatever *)
(* the encoders say: Deadman, DirectStopHolds and ChassisCeiling.          *)
THEOREM OdometryImplementsDrive == OdoSpec => Spec
<1>1. OdoInit => Init
  BY DEF OdoInit
<1> QED
  BY <1>1, OdoStepBelow, PTL DEF OdoSpec, Spec

----------------------------------------------------------------------------
(* Types. *)

(* One update keeps the types. *)
LEMMA UpdateType ==
    ASSUME OdoTypeOK, NEW ok \in [Wheels -> BOOLEAN], UpdateOdometry(ok)
    PROVE  /\ previous' \in [Wheels -> Int] /\ heading' \in Int /\ x' \in Int /\ y' \in Int
           /\ snapshot' \in Snapshot /\ initialized'
           /\ ReadsType'
<1> DEFINE positions == ReadOut(encoders, ok)
           readable == \A w \in Wheels : ok[w]
<1>1. positions \in [Wheels -> Int] /\ ReadOut(turned, ok) \in [Wheels -> Int]
  BY ReadOutFacts DEF OdoTypeOK
<1>2. Way(positions, ok) \in [Wheels -> Int]
  BY <1>1 DEF Way, OdoTypeOK
<1>3. heading' \in Int /\ x' \in Int /\ y' \in Int
  <2>1. CASE ~initialized
    BY <2>1 DEF UpdateOdometry, OdoTypeOK, pose
  <2>2. CASE initialized /\ positionFeedback
    BY <1>2, <2>2, IntegrateType DEF UpdateOdometry, OdoTypeOK
  <2>3. CASE initialized /\ ~positionFeedback
    BY <1>1, <2>3, IntegrateType DEF UpdateOdometry, OdoTypeOK
  <2> QED
    BY <2>1, <2>2, <2>3 DEF OdoTypeOK
<1>4. previous' \in [Wheels -> Int]
  BY <1>1 DEF UpdateOdometry, OdoTypeOK
<1>5. snapshot' \in Snapshot
  BY <1>3 DEF UpdateOdometry, Snapshot
<1>6. ReadsType'
  <2>1. NoteRead(positions, readable)
    BY DEF UpdateOdometry
  <2>2. origin' \in [Wheels -> Int] /\ firstRead' \in BOOLEAN /\ lastRead' \in BOOLEAN
    BY <2>1 DEF NoteRead, OdoTypeOK
  <2>3. CASE readable
    <3> HIDE DEF readable
    <3>1. anchor' \in Anchor
      <4>1. anchor' = [valid |-> TRUE, at |-> encoders, heading |-> heading', x |-> x', y |-> y']
        BY <2>1, <2>3 DEF NoteRead
      <4>2. encoders \in [Wheels -> Int]
        BY DEF OdoTypeOK
      <4> QED BY <1>3, <4>1, <4>2 DEF Anchor
    <3>2. failures' \in 0..MaxFailures /\ alike' \in BOOLEAN
      BY <2>1, <2>3 DEF NoteRead, OdoTypeOK
    <3> QED BY <2>2, <3>1, <3>2 DEF ReadsType
  <2>4. CASE ~readable
    <3> HIDE DEF readable
    <3>1. anchor' \in Anchor /\ failures' \in 0..MaxFailures
      BY <2>1, <2>4, OdometryAssumption DEF NoteRead, OdoTypeOK
    <3>2. alike' \in BOOLEAN
      BY <2>1, <2>4 DEF NoteRead, OdoTypeOK
    <3> QED BY <2>2, <3>1, <3>2 DEF ReadsType
  <2> QED BY <2>3, <2>4
<1>7. initialized'
  BY DEF UpdateOdometry
<1> QED BY <1>3, <1>4, <1>5, <1>6, <1>7

(* No step breaks a type. *)
LEMMA OdoTypeKept == OdoTypeOK /\ [OdoNext]_odoVars => OdoTypeOK'
<1> SUFFICES ASSUME OdoTypeOK, [OdoNext]_odoVars PROVE OdoTypeOK'
  OBVIOUS
<1>0. TypeOK'
  BY TypeKept, OdoStepBelow DEF OdoTypeOK
<1> USE DEF ReadsType, encoderVars, odometryVars, pose, readVars
<1>1. CASE OdoConfigure
  BY <1>0, <1>1, ResetType DEF OdoConfigure, OdoTypeOK
<1>2. CASE OdoActivate
  BY <1>0, <1>2, ResetType DEF OdoActivate, OdoTypeOK
<1>3. CASE OdoDeactivate
  BY <1>0, <1>3 DEF OdoDeactivate, OdoTypeOK
<1>4. CASE OdoUpdate
  BY <1>0, <1>4, UpdateType DEF OdoUpdate, OdoTypeOK
<1>5. CASE OdoCommand
  BY <1>0, <1>5 DEF OdoCommand, OdoTypeOK
<1>6. CASE OdoPeriod
  <2>1. turned' \in [Wheels -> Int]
    BY <1>6, OdometryAssumption DEF OdoPeriod
  <2>2. encoders' \in [Wheels -> Int]
    BY <1>6, <2>1 DEF OdoPeriod, OdoTypeOK
  <2> QED
    BY <1>0, <1>6, <2>1, <2>2 DEF OdoPeriod, OdoTypeOK
<1>7. CASE CopySnapshot
  BY <1>0, <1>7 DEF CopySnapshot, OdoTypeOK
<1>8. CASE PublishOdometry
  BY <1>0, <1>8, ZeroTypes DEF PublishOdometry, OdoTypeOK
<1>9. CASE UNCHANGED odoVars
  BY <1>0, <1>9 DEF odoVars, OdoTypeOK
<1> QED
  BY <1>1, <1>2, <1>3, <1>4, <1>5, <1>6, <1>7, <1>8, <1>9 DEF OdoNext

(* The initial state has the types. *)
LEMMA OdoTypeInit == OdoInit => OdoTypeOK
<1> SUFFICES ASSUME OdoInit PROVE OdoTypeOK
  OBVIOUS
<1>1. /\ encoders = AtZero /\ turned = AtZero /\ previous = AtZero /\ origin = AtZero
      /\ snapshot = NoSnapshot /\ copied = NoSnapshot /\ anchor = NoAnchor
  BY DEF OdoInit
<1>2. heading \in Int /\ x \in Int /\ y \in Int /\ failures \in 0..MaxFailures
  BY OdometryAssumption DEF OdoInit
<1>3. /\ positionFeedback \in BOOLEAN /\ initialized \in BOOLEAN /\ publishing \in BOOLEAN
      /\ firstRead \in BOOLEAN /\ lastRead \in BOOLEAN /\ alike \in BOOLEAN
  BY DEF OdoInit
<1>4. TypeOK
  BY TypeInit DEF OdoInit
<1> QED
  BY <1>1, <1>2, <1>3, <1>4, ZeroTypes DEF OdoTypeOK

(* Every variable keeps its type, for every value of the constants.        *)
THEOREM OdometryTypeCorrect == OdoSpec => []OdoTypeOK
  BY OdoTypeInit, OdoTypeKept, PTL DEF OdoSpec

----------------------------------------------------------------------------
(* The heading heals, and an outage leaves no trace. *)

(* What an update reads, and what it makes of it. *)
LEMMA UpdateFacts ==
    ASSUME OdoTypeOK, NEW ok \in [Wheels -> BOOLEAN], UpdateOdometry(ok)
    PROVE  \E positions \in [Wheels -> Int] :
              /\ NoteRead(positions, \A w \in Wheels : ok[w])
              /\ lastRead' => positions = encoders /\ ReadOut(turned, ok) = turned
              /\ positionFeedback \/ ~initialized => previous' = positions
              /\ ~initialized => UNCHANGED pose
              /\ initialized /\ positionFeedback => Integrate(Between(positions, previous))
              /\ initialized /\ ~positionFeedback => Integrate(ReadOut(turned, ok))
<1> DEFINE positions == ReadOut(encoders, ok)
<1>1. positions \in [Wheels -> Int]
  BY ReadOutFacts DEF OdoTypeOK
<1>2. lastRead' => positions = encoders /\ ReadOut(turned, ok) = turned
  BY ReadOutFacts DEF UpdateOdometry, NoteRead, OdoTypeOK
<1>3. Way(positions, ok) = Between(positions, previous)
  BY DEF Way, Between
<1> HIDE DEF positions
<1>4. UpdateOdometry(ok) <=>
        /\ initialized' = TRUE
        /\ IF ~initialized
           THEN previous' = positions /\ UNCHANGED pose
           ELSE IF positionFeedback
           THEN previous' = positions /\ Integrate(Way(positions, ok))
           ELSE UNCHANGED previous /\ Integrate(ReadOut(turned, ok))
        /\ snapshot' = [valid |-> TRUE, heading |-> heading', x |-> x', y |-> y',
                        current |-> TRUE]
        /\ NoteRead(positions, \A w \in Wheels : ok[w])
  BY DEF UpdateOdometry, positions
<1> QED BY <1>1, <1>2, <1>3, <1>4, Zenon

(* One update keeps the turns telescoping and counted. *)
LEMMA UpdateTurns ==
    ASSUME OdoTypeOK, OdoTypeOK', TurnsTelescope, TurnsCounted, LastReadIsHere,
           NEW ok \in [Wheels -> BOOLEAN], UpdateOdometry(ok),
           updateDue, ~updateDue', lifecycle' = lifecycle,
           UNCHANGED <<encoders, turned, positionFeedback>>
    PROVE  TurnsTelescope' /\ TurnsCounted' /\ LastReadIsHere'
<1>0. /\ previous \in [Wheels -> Int] /\ origin \in [Wheels -> Int] /\ turned \in [Wheels -> Int]
      /\ encoders \in [Wheels -> Int] /\ heading \in Int /\ initialized'
      /\ failures \in Nat
  BY DEF OdoTypeOK, UpdateOdometry
<1>1. PICK positions \in [Wheels -> Int] :
              /\ NoteRead(positions, \A w \in Wheels : ok[w])
              /\ lastRead' => positions = encoders /\ ReadOut(turned, ok) = turned
              /\ positionFeedback \/ ~initialized => previous' = positions
              /\ ~initialized => UNCHANGED pose
              /\ initialized /\ positionFeedback => Integrate(Between(positions, previous))
              /\ initialized /\ ~positionFeedback => Integrate(ReadOut(turned, ok))
  BY UpdateFacts
<1>2. LastReadIsHere'
  BY <1>1 DEF LastReadIsHere
<1>3. CASE ~initialized
  <2>1. heading' = 0 /\ origin' = encoders /\ previous' = positions /\ firstRead' = lastRead'
    BY <1>1, <1>3 DEF NoteRead, TurnsTelescope, pose
  <2>2. Turn(Between(encoders, encoders)) = 0
    BY <1>0, NoWay
  <2>3. TurnsTelescope'
    BY <1>0, <1>1, <2>1, <2>2 DEF TurnsTelescope
  <2>4. TurnsCounted'
    BY <2>1, <2>2 DEF TurnsCounted
  <2> QED BY <1>2, <2>3, <2>4
<1>4. CASE initialized /\ positionFeedback
  <2>1. /\ heading' = heading + Turn(Between(positions, previous))
        /\ previous' = positions /\ origin' = origin /\ firstRead' = firstRead
    BY <1>1, <1>4 DEF NoteRead, Integrate
  <2>2. Turn(Between(previous, origin)) + Turn(Between(positions, previous))
            = Turn(Between(positions, origin))
    BY <1>0, TurnsAdd
  <2>3. TurnsTelescope'
    BY <1>0, <1>4, <2>1, <2>2 DEF TurnsTelescope
  <2>4. TurnsCounted'
    BY <1>4 DEF TurnsCounted
  <2> QED BY <1>2, <2>3, <2>4
<1>5. CASE initialized /\ ~positionFeedback
  <2>1. heading' = heading + Turn(ReadOut(turned, ok)) /\ origin' = origin
    BY <1>1, <1>5 DEF NoteRead, Integrate
  <2>2. TurnsTelescope'
    BY <1>0, <1>5 DEF TurnsTelescope
  <2>3. ASSUME failures' = 0, lifecycle = "active"
        PROVE  heading' = Turn(Between(encoders, origin))
    <3>1. lastRead' /\ failures = 0
      BY <1>0, <1>1, <2>3 DEF NoteRead
    <3>2. heading = Turn(Between(encoders, origin)) - Turn(turned)
      BY <1>5, <2>3, <3>1 DEF TurnsCounted
    <3>3. Turn(turned) \in Int /\ Turn(Between(encoders, origin)) \in Int
      BY <1>0, WayType, BetweenType
    <3> QED BY <1>1, <2>1, <3>1, <3>2, <3>3
  <2>4. TurnsCounted'
    BY <2>1, <2>3 DEF TurnsCounted
  <2> QED BY <1>2, <2>2, <2>4
<1> QED BY <1>3, <1>4, <1>5

(* No way leaves the pose of the anchor. *)
LEMMA PoseThere ==
    ASSUME NEW from \in Anchor
    PROVE  PoseAfter(from, from.at) = <<from.heading, from.x, from.y>>
<1> DEFINE way == Between(from.at, from.at)
           midpoint == (2 * from.heading + Turn(way)) % Circle
<1>1. from.heading \in Int /\ from.x \in Int /\ from.y \in Int /\ from.at \in [Wheels -> Int]
  BY DEF Anchor
<1>2. Turn(way) = 0 /\ Advance(way) = 0
  BY <1>1, NoWay
<1>3. Cosine[midpoint] \in Int /\ Sine[midpoint] \in Int
  BY <1>1, <1>2, MidpointType
<1>4. PoseAfter(from, from.at) = <<from.heading + Turn(way),
          from.x + Advance(way) * Cosine[midpoint], from.y + Advance(way) * Sine[midpoint]>>
  BY DEF PoseAfter
<1> HIDE DEF way, midpoint
<1>5. /\ from.heading + Turn(way) = from.heading
      /\ from.x + Advance(way) * Cosine[midpoint] = from.x
      /\ from.y + Advance(way) * Sine[midpoint] = from.y
  BY <1>1, <1>2, <1>3, ProjectionType
<1> QED BY <1>4, <1>5

(* Integrating no way leaves the pose alone. *)
LEMMA IntegrateNothing ==
    ASSUME NEW there \in [Wheels -> Int], heading \in Int, x \in Int, y \in Int,
           Integrate(Between(there, there))
    PROVE  pose' = pose
<1> DEFINE way == Between(there, there)
           midpoint == (2 * heading + Turn(way)) % Circle
<1>1. Turn(way) = 0 /\ Advance(way) = 0
  BY NoWay
<1>2. Cosine[midpoint] \in Int /\ Sine[midpoint] \in Int
  BY <1>1, MidpointType
<1>3. /\ x' = x + Advance(way) * Cosine[midpoint] /\ y' = y + Advance(way) * Sine[midpoint]
      /\ heading' = heading + Turn(way)
  BY DEF Integrate
<1> HIDE DEF way, midpoint
<1>4. x' = x /\ y' = y /\ heading' = heading
  BY <1>1, <1>2, <1>3, ProjectionType
<1> QED BY <1>4 DEF pose

(* The way back to the anchor has the midpoint of the way there. *)
LEMMA PoseBack ==
    ASSUME NEW from \in Anchor, NEW there \in [Wheels -> Int],
           pose = PoseAfter(from, there), Integrate(Between(from.at, there))
    PROVE  pose' = <<from.heading, from.x, from.y>>
<1> DEFINE way == Between(there, from.at)
           back == Between(from.at, there)
           midpoint == (2 * from.heading + Turn(way)) % Circle
<1>1. from.heading \in Int /\ from.x \in Int /\ from.y \in Int /\ from.at \in [Wheels -> Int]
  BY DEF Anchor
<1>2. Turn(back) = -Turn(way) /\ Advance(back) = -Advance(way)
  BY <1>1, WayBack
<1>3. Turn(way) \in Int /\ Advance(way) \in Int
  BY <1>1, WayType, BetweenType
<1>4. Cosine[midpoint] \in Int /\ Sine[midpoint] \in Int
  BY <1>1, <1>3, MidpointType
<1>5. /\ heading = from.heading + Turn(way)
      /\ x = from.x + Advance(way) * Cosine[midpoint]
      /\ y = from.y + Advance(way) * Sine[midpoint]
  BY DEF PoseAfter, pose
<1>6. (2 * heading + Turn(back)) % Circle = midpoint
  <2>1. 2 * heading + Turn(back) = 2 * from.heading + Turn(way)
    <3> HIDE DEF way, back, midpoint
    <3> QED BY <1>1, <1>2, <1>3, <1>5
  <2> QED BY <2>1
<1>7. /\ x' = x + Advance(back) * Cosine[midpoint] /\ y' = y + Advance(back) * Sine[midpoint]
      /\ heading' = heading + Turn(back)
  BY <1>6 DEF Integrate
<1> HIDE DEF way, back, midpoint
<1>8. /\ (from.x + Advance(way) * Cosine[midpoint]) + (-Advance(way)) * Cosine[midpoint] = from.x
      /\ (from.y + Advance(way) * Sine[midpoint]) + (-Advance(way)) * Sine[midpoint] = from.y
  BY <1>1, <1>3, <1>4, ProjectionType
<1>9. x' = from.x /\ y' = from.y
  BY <1>2, <1>5, <1>7, <1>8
<1>10. heading' = from.heading
  BY <1>1, <1>2, <1>3, <1>5, <1>7
<1> QED BY <1>9, <1>10 DEF pose

(* What an update does, as OutageLeavesNoTrace has it. *)
TraceLess ==
    positionFeedback /\ lastRead' /\ anchor.valid /\ alike /\ encoders = anchor.at
        => pose' = <<anchor.heading, anchor.x, anchor.y>>

(* One update keeps the anchor, and leads back to it. *)
LEMMA UpdateAnchor ==
    ASSUME OdoTypeOK, OdoTypeOK', AnchorHolds,
           NEW ok \in [Wheels -> BOOLEAN], UpdateOdometry(ok),
           UNCHANGED <<encoders, positionFeedback>>
    PROVE  AnchorHolds' /\ TraceLess
<1>0. /\ previous \in [Wheels -> Int] /\ anchor \in Anchor /\ anchor' \in Anchor
      /\ heading \in Int /\ x \in Int /\ y \in Int /\ initialized'
  BY DEF OdoTypeOK, UpdateOdometry
<1>1. PICK positions \in [Wheels -> Int] :
              /\ NoteRead(positions, \A w \in Wheels : ok[w])
              /\ lastRead' => positions = encoders /\ ReadOut(turned, ok) = turned
              /\ positionFeedback \/ ~initialized => previous' = positions
              /\ ~initialized => UNCHANGED pose
              /\ initialized /\ positionFeedback => Integrate(Between(positions, previous))
              /\ initialized /\ ~positionFeedback => Integrate(ReadOut(turned, ok))
  BY UpdateFacts
<1>2. CASE ~positionFeedback
  BY <1>0, <1>2 DEF AnchorHolds, TraceLess
<1>3. CASE positionFeedback /\ lastRead'
  <2>1. anchor' = [valid |-> TRUE, at |-> encoders, heading |-> heading', x |-> x', y |-> y']
    BY <1>1, <1>3 DEF NoteRead
  <2>2. previous' = anchor'.at /\ pose' = <<anchor'.heading, anchor'.x, anchor'.y>>
    BY <1>1, <1>3, <2>1 DEF pose
  <2>3. PoseAfter(anchor', anchor'.at) = <<anchor'.heading, anchor'.x, anchor'.y>>
    BY <1>0, PoseThere
  <2>4. AnchorHolds'
    BY <1>0, <2>2, <2>3 DEF AnchorHolds
  <2>5. TraceLess
    <3> SUFFICES ASSUME anchor.valid, alike, encoders = anchor.at
                 PROVE  pose' = <<anchor.heading, anchor.x, anchor.y>>
      BY DEF TraceLess
    <3>1. Integrate(Between(anchor.at, previous)) /\ pose = PoseAfter(anchor, previous)
      BY <1>1, <1>3 DEF AnchorHolds
    <3> QED BY <1>0, <3>1, PoseBack
  <2> QED BY <2>4, <2>5
<1>4. CASE positionFeedback /\ ~lastRead'
  <2>1. /\ anchor' = anchor /\ previous' = positions
        /\ alike' => alike /\ (lastRead \/ positions = previous)
    BY <1>1, <1>4 DEF NoteRead
  <2>2. ASSUME anchor.valid, alike'
        PROVE  pose' = PoseAfter(anchor, positions)
    <3>1. /\ initialized /\ Integrate(Between(positions, previous))
          /\ pose = PoseAfter(anchor, previous)
      BY <1>1, <1>4, <2>1, <2>2 DEF AnchorHolds
    <3>2. CASE lastRead
      <4>1. previous = anchor.at /\ pose = <<anchor.heading, anchor.x, anchor.y>>
        BY <1>0, <1>4, <2>2, <3>1, <3>2, PoseThere DEF AnchorHolds
      <4> QED BY <3>1, <4>1 DEF Integrate, PoseAfter, pose
    <3>3. CASE positions = previous
      <4>1. pose' = pose
        BY <1>0, <3>1, <3>3, IntegrateNothing
      <4> QED BY <3>1, <3>3, <4>1
    <3> QED BY <2>1, <2>2, <3>2, <3>3
  <2>3. AnchorHolds'
    BY <1>0, <1>4, <2>1, <2>2 DEF AnchorHolds
  <2> QED BY <1>4, <2>3 DEF TraceLess
<1> QED BY <1>2, <1>3, <1>4

(* A reset leaves nothing to heal. *)
LEMMA ResetHolds ==
    ResetOdometryState => TurnsTelescope' /\ TurnsCounted' /\ LastReadIsHere' /\ AnchorHolds'
<1> SUFFICES ASSUME ResetOdometryState
             PROVE  TurnsTelescope' /\ TurnsCounted' /\ LastReadIsHere' /\ AnchorHolds'
  OBVIOUS
<1>1. ~initialized' /\ heading' = 0 /\ ~anchor'.valid
  BY DEF ResetOdometryState, ForgetReads, NoAnchor
<1> QED BY <1>1 DEF TurnsTelescope, TurnsCounted, LastReadIsHere, AnchorHolds

(* A step that leaves the odometry and the encoders alone keeps what it    *)
(* says, unless it asks for an update.                                     *)
LEMMA IdleHolds ==
    ASSUME OdoInv, UNCHANGED <<positionFeedback, odometryVars, encoderVars>>,
           \/ UNCHANGED <<lifecycle, updateDue>>
           \/ lifecycle' # "active"
    PROVE  TurnsTelescope' /\ TurnsCounted' /\ LastReadIsHere' /\ AnchorHolds'
<1>1. TurnsTelescope' /\ TurnsCounted' /\ LastReadIsHere'
  BY DEF OdoInv, odometryVars, readVars, pose, encoderVars, TurnsTelescope, TurnsCounted,
     LastReadIsHere
<1>2. AnchorHolds'
  BY DEF OdoInv, odometryVars, readVars, AnchorHolds
<1> QED BY <1>1, <1>2

(* Every step keeps the invariant. *)
LEMMA OdoKept == OdoInv /\ [OdoNext]_odoVars => OdoInv'
<1> SUFFICES ASSUME OdoInv, [OdoNext]_odoVars PROVE OdoInv'
  OBVIOUS
<1>0. OdoTypeOK /\ OdoTypeOK'
  BY OdoTypeKept DEF OdoInv
<1> DEFINE Kept == TurnsTelescope' /\ TurnsCounted' /\ LastReadIsHere' /\ AnchorHolds'
<1>1. ASSUME OdoConfigure \/ OdoActivate PROVE Kept
  BY <1>1, ResetHolds DEF OdoConfigure, OdoActivate
<1>2. ASSUME OdoDeactivate PROVE Kept
  BY <1>2, IdleHolds DEF OdoDeactivate, OnDeactivate
<1>3. ASSUME OdoUpdate PROVE Kept
  BY <1>0, <1>3, UpdateTurns, UpdateAnchor DEF OdoUpdate, Update, encoderVars, OdoInv
<1>4. ASSUME OdoCommand \/ CopySnapshot \/ PublishOdometry \/ UNCHANGED odoVars PROVE Kept
  BY <1>4, IdleHolds DEF OdoCommand, OnWheelCommand, OnDirectCommand, OnCommand, CopySnapshot,
     PublishOdometry, odoVars, driveVars
<1>5. ASSUME OdoPeriod PROVE Kept
  <2>1. /\ UNCHANGED <<positionFeedback, odometryVars>> /\ lifecycle' = lifecycle
        /\ ~updateDue /\ updateDue' = (lifecycle = "active")
    BY <1>5 DEF OdoPeriod, Period
  <2>2. TurnsTelescope' /\ LastReadIsHere'
    BY <1>0, <2>1 DEF OdoInv, odometryVars, readVars, pose, TurnsTelescope, LastReadIsHere
  <2>3. AnchorHolds'
    BY <2>1 DEF OdoInv, odometryVars, readVars, AnchorHolds
  <2>4. TurnsCounted'
    <3>1. /\ encoders \in [Wheels -> Int] /\ encoders' \in [Wheels -> Int]
          /\ origin \in [Wheels -> Int] /\ turned' \in [Wheels -> Int]
      BY <1>0 DEF OdoTypeOK
    <3>2. turned' = Between(encoders', encoders)
      BY <1>5, <3>1 DEF OdoPeriod, Between
    <3>3. /\ Turn(Between(encoders, origin)) + Turn(turned') = Turn(Between(encoders', origin))
          /\ Turn(turned') \in Int /\ Turn(Between(encoders, origin)) \in Int
      BY <3>1, <3>2, TurnsAdd, WayType, BetweenType
    <3> SUFFICES ASSUME ~positionFeedback, initialized, failures = 0, lifecycle = "active"
                 PROVE  heading' = Turn(Between(encoders', origin')) - Turn(turned')
      BY <2>1 DEF TurnsCounted, odometryVars, readVars
    <3>4. heading' = Turn(Between(encoders, origin)) /\ origin' = origin
      BY <2>1, <3>3 DEF OdoInv, TurnsCounted, odometryVars, readVars, pose
    <3> QED BY <3>3, <3>4
  <2> QED BY <2>2, <2>3, <2>4
<1> QED
  BY <1>0, <1>1, <1>2, <1>3, <1>4, <1>5 DEF OdoNext, OdoInv

(* The invariant holds in every state. *)
LEMMA OdoInvariant == OdoSpec => []OdoInv
<1>1. OdoInit => OdoInv
  BY OdoTypeInit DEF OdoInit, OdoInv, NoAnchor, TurnsTelescope, TurnsCounted, LastReadIsHere,
     AnchorHolds
<1> QED BY <1>1, OdoKept, PTL DEF OdoSpec

(* The heading is what the wheels turned since the first update: with      *)
(* position feedback after every readable update, however many failed      *)
(* before it, and with velocity feedback while none has failed; for all    *)
(* radii.                                                                  *)
THEOREM HeadingHealed == OdoSpec => []HeadingHeals
<1>1. OdoInv => HeadingHeals
  <2> SUFFICES ASSUME OdoInv, lifecycle = "active", ~updateDue, initialized,
                      IF positionFeedback THEN firstRead /\ lastRead ELSE failures = 0
               PROVE  heading = Turn(Between(encoders, origin))
    BY DEF HeadingHeals, Between
  <2>1. CASE positionFeedback
    BY <2>1 DEF OdoInv, TurnsTelescope, LastReadIsHere
  <2>2. CASE ~positionFeedback
    <3>1. Turn(Between(encoders, origin)) \in Int
      BY WayType, BetweenType DEF OdoInv, OdoTypeOK
    <3> QED BY <2>2, <3>1 DEF OdoInv, TurnsCounted
  <2> QED BY <2>1, <2>2
<1> QED
  BY <1>1, OdoInvariant, PTL

(* With position feedback an outage whose reads are all alike leaves no    *)
(* trace in the pose when the wheels are where they were, for all radii    *)
(* and every table of the cosine and the sine.                             *)
THEOREM OutagesLeaveNoTrace == OdoSpec => OutageLeavesNoTrace
<1>1. OdoInv /\ OdoInv' /\ [OdoNext]_odoVars =>
        [OdoUpdate /\ positionFeedback /\ lastRead'
            /\ anchor.valid /\ alike /\ encoders = anchor.at
         => pose' = <<anchor.heading, anchor.x, anchor.y>>]_odoVars
  BY UpdateAnchor DEF OdoUpdate, encoderVars, OdoInv, TraceLess
<1> QED
  BY <1>1, OdoInvariant, PTL DEF OdoSpec, OutageLeavesNoTrace

----------------------------------------------------------------------------
(* The snapshot. *)

(* What the publishing timer finds was measured since the last activation. *)
THEOREM SnapshotsAreCurrent == OdoSpec => []SnapshotIsCurrent
<1>1. OdoInit => SnapshotIsCurrent
  BY DEF OdoInit, NoSnapshot, SnapshotIsCurrent
<1>2. SnapshotIsCurrent /\ [OdoNext]_odoVars => SnapshotIsCurrent'
  <2> SUFFICES ASSUME SnapshotIsCurrent, [OdoNext]_odoVars PROVE SnapshotIsCurrent'
    OBVIOUS
  <2>1. CASE OdoConfigure \/ OdoActivate
    BY <2>1 DEF OdoConfigure, OdoActivate, ResetOdometryState, NoSnapshot,
       SnapshotIsCurrent
  <2>2. CASE OdoUpdate
    BY <2>2 DEF OdoUpdate, UpdateOdometry, SnapshotIsCurrent, pose
  <2>3. CASE UNCHANGED odometryVars
    BY <2>3 DEF odometryVars, pose, SnapshotIsCurrent
  <2> QED
    BY <2>1, <2>2, <2>3 DEF OdoNext, OdoDeactivate, OdoCommand, OdoPeriod, CopySnapshot,
       PublishOdometry, odoVars
<1> QED
  BY <1>1, <1>2, PTL DEF OdoSpec

=============================================================================
