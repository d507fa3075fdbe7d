------------------------ MODULE ToolControllerProofs ------------------------
(***************************************************************************)
(* Theorems about ToolController, for every set of commands, every full    *)
(* scale, every speed and every timeout, with writes that fail or not.     *)
(***************************************************************************)
EXTENDS ToolController, TLAPS

Turning == twist.linear # 0 \/ twist.angular # 0
Driving == direct.left # 0 \/ direct.right # 0

(***************************************************************************)
(* The strengthening that makes ToolDeadman inductive: a moving command    *)
(* that is held is at least as old as the silence, and the loop updates    *)
(* none but an active controller.                                          *)
(***************************************************************************)
ToolHeldIsHeard ==
    /\ twist.valid /\ Turning => toolQuiet <= twist.age
    /\ direct.valid /\ Driving => toolQuiet <= direct.age

ToolOnlyActiveUpdated == toolLifecycle # "active" => ~toolUpdateDue

ToolRestInv == ToolTypeOK /\ ToolHeldIsHeard /\ ToolOnlyActiveUpdated /\ ToolDeadman

----------------------------------------------------------------------------
(* Lemmas about the operators. *)

TwistType == [valid : BOOLEAN, age : 0..ToolAgeCap, linear : Components, angular : Components]
DirectType == [valid : BOOLEAN, age : 0..ToolAgeCap, left : Velocities, right : Velocities]

(* The empty commands are commands. *)
LEMMA EmptyTypes == NoTwist \in TwistType /\ NoDirect \in DirectType
  BY ToolInputsAssumption, ToolWindowsAssumption DEF NoTwist, NoDirect, TwistType, DirectType

(* The clamp keeps to full scale, and keeps zero. *)
LEMMA ClampFacts ==
    ASSUME NEW value \in Int
    PROVE  ClampUnit(value) \in -Unit..Unit /\ (value = 0 => ClampUnit(value) = 0)
  BY ToolInputsAssumption DEF ClampUnit

(* A twist gives integers, and zero when it does not move. *)
LEMMA FromTwistFacts ==
    ASSUME twist \in TwistType
    PROVE  FromTwist \in [Brushes -> Int] /\ (~Turning => FromTwist = BrushesStop)
<1> DEFINE l == ClampUnit(twist.linear)
           a == ClampUnit(twist.angular)
<1>1. twist.linear \in Int /\ twist.angular \in Int
  BY ToolInputsAssumption DEF TwistType
<1>2. l \in Int /\ a \in Int /\ (~Turning => l = 0 /\ a = 0)
  BY <1>1, ClampFacts, ToolInputsAssumption DEF Turning
<1>3. FromTwist = [b \in Brushes |-> IF b = "left" THEN (l - a) * MaxToolSpeed
                                                   ELSE (l + a) * MaxToolSpeed]
  BY DEF FromTwist
<1> HIDE DEF l, a
<1>4. (l - a) * MaxToolSpeed \in Int /\ (l + a) * MaxToolSpeed \in Int
  BY <1>2, ToolInputsAssumption
<1>5. l = 0 /\ a = 0 => (l - a) * MaxToolSpeed = 0 /\ (l + a) * MaxToolSpeed = 0
  BY ToolInputsAssumption
<1> QED
  BY <1>2, <1>3, <1>4, <1>5 DEF BrushesStop

(* What update writes is integers; it is a usable direct command if there  *)
(* is one, and otherwise at rest unless a usable twist moves.              *)
LEMMA TargetFacts ==
    ASSUME ToolTypeOK
    PROVE  /\ Target \in [Brushes -> Int]
           /\ direct.valid /\ IsToolFresh(direct, DirectTimeout)
                => \A b \in Brushes : Target[b] = direct[b]
           /\ \/ direct.valid /\ IsToolFresh(direct, DirectTimeout) /\ Driving
              \/ twist.valid /\ IsToolFresh(twist, TwistTimeout) /\ Turning
              \/ \A b \in Brushes : Target[b] = 0
<1>1. twist \in TwistType /\ direct \in DirectType
  BY DEF ToolTypeOK, TwistType, DirectType
<1>2. FromTwist \in [Brushes -> Int] /\ (~Turning => FromTwist = BrushesStop)
  BY <1>1, FromTwistFacts
<1>3. direct.left \in Int /\ direct.right \in Int
  BY <1>1, ToolInputsAssumption DEF DirectType
<1> QED
  BY <1>2, <1>3 DEF Target, Brushes, BrushesStop, Driving

(* After a write a brush has the new value or still its own, and an        *)
(* accepted write is the new value.                                        *)
LEMMA SetFacts ==
    ASSUME NEW value \in [Brushes -> Int], brushes \in [Brushes -> Int],
           SetHardwareCommand(value)
    PROVE  /\ brushes' \in [Brushes -> Int] /\ toolStored' \in [Brushes -> BOOLEAN]
           /\ \A b \in Brushes : toolStored'[b] => brushes'[b] = value[b]
  BY DEF SetHardwareCommand

(* Both brushes at rest is a value for them. *)
LEMMA StopType == BrushesStop \in [Brushes -> Int] /\ \A b \in Brushes : BrushesStop[b] = 0
  BY DEF BrushesStop

(* Ageing is monotone and stays below the cap. *)
LEMMA ToolOlderFacts ==
    ASSUME NEW a \in 0..ToolAgeCap, NEW b \in 0..ToolAgeCap
    PROVE  /\ ToolOlder(a) \in 0..ToolAgeCap
           /\ a <= b => ToolOlder(a) <= ToolOlder(b)
  BY ToolWindowsAssumption DEF ToolOlder

----------------------------------------------------------------------------
(* Types. *)

(* No step breaks a type. *)
LEMMA ToolTypeKept == ToolTypeOK /\ [ToolNext]_toolVars => ToolTypeOK'
<1> SUFFICES ASSUME ToolTypeOK, [ToolNext]_toolVars PROVE ToolTypeOK'
  OBVIOUS
<1>0. /\ twist \in TwistType /\ direct \in DirectType /\ brushes \in [Brushes -> Int]
      /\ NoTwist \in TwistType /\ NoDirect \in DirectType
      /\ ToolAgeCap \in 0..ToolAgeCap /\ 0 \in 0..ToolAgeCap
  BY EmptyTypes, ToolWindowsAssumption DEF ToolTypeOK, TwistType, DirectType
<1>1. CASE OnToolConfigure
  BY <1>0, <1>1 DEF OnToolConfigure, ResetToolCommandState, ToolTypeOK, TwistType, DirectType
<1>2. CASE OnToolActivate
  <2>1. brushes' \in [Brushes -> Int] /\ toolStored' \in [Brushes -> BOOLEAN]
    BY <1>0, <1>2, SetFacts, StopType DEF OnToolActivate
  <2> QED
    BY <1>0, <1>2, <2>1
       DEF OnToolActivate, ResetToolCommandState, ToolTypeOK, TwistType, DirectType
<1>3. CASE OnToolDeactivate
  <2>1. brushes' \in [Brushes -> Int] /\ toolStored' \in [Brushes -> BOOLEAN]
    BY <1>0, <1>3, SetFacts, StopType DEF OnToolDeactivate
  <2> QED
    BY <1>3, <2>1 DEF OnToolDeactivate, commandVars, ToolTypeOK
<1>4. ASSUME NEW linear \in Components, NEW angular \in Components,
             OnToolCommand(linear, angular)
      PROVE  ToolTypeOK'
  BY <1>0, <1>4 DEF OnToolCommand, Heard, ToolTypeOK, TwistType
<1>5. ASSUME NEW left \in Velocities, NEW right \in Velocities,
             OnToolDirectCommand(left, right)
      PROVE  ToolTypeOK'
  BY <1>0, <1>5 DEF OnToolDirectCommand, Heard, ToolTypeOK, DirectType
<1>6. CASE ToolUpdate
  <2>1. brushes' \in [Brushes -> Int] /\ toolStored' \in [Brushes -> BOOLEAN]
    BY <1>0, <1>6, TargetFacts, SetFacts DEF ToolUpdate
  <2> QED
    BY <1>6, <2>1 DEF ToolUpdate, commandVars, ToolTypeOK
<1>7. CASE ToolPeriod
  <2>1. twist' \in TwistType /\ direct' \in DirectType
    BY <1>0, <1>7, ToolOlderFacts DEF ToolPeriod, TwistType, DirectType
  <2>2. toolQuiet' \in 0..ToolAgeCap
    BY <1>7, ToolOlderFacts DEF ToolPeriod, ToolTypeOK
  <2> QED
    BY <1>7, <2>1, <2>2 DEF ToolPeriod, ToolTypeOK, TwistType, DirectType
<1>8. CASE UNCHANGED toolVars
  BY <1>8 DEF toolVars, commandVars, ToolTypeOK
<1> QED
  BY <1>1, <1>2, <1>3, <1>4, <1>5, <1>6, <1>7, <1>8 DEF ToolNext

(* The initial state has the types. *)
LEMMA ToolTypeInit == ToolInit => ToolTypeOK
<1>1. [b \in Brushes |-> TRUE] \in [Brushes -> BOOLEAN] /\ ToolAgeCap \in 0..ToolAgeCap
  BY ToolWindowsAssumption
<1> QED
  BY <1>1, EmptyTypes, StopType DEF ToolInit, ToolTypeOK, TwistType, DirectType

(* Every variable keeps its type, for every value of the constants.        *)
THEOREM ToolTypeCorrect == ToolSpec => []ToolTypeOK
  BY ToolTypeInit, ToolTypeKept, PTL DEF ToolSpec

----------------------------------------------------------------------------
(* The deadman. *)

(* The initial state has the invariant. *)
LEMMA ToolRestInit == ToolInit => ToolRestInv
<1>1. ToolInit => ToolHeldIsHeard /\ ToolOnlyActiveUpdated /\ ToolDeadman
  BY DEF ToolInit, ToolHeldIsHeard, ToolOnlyActiveUpdated, ToolDeadman, NoTwist, NoDirect,
     BrushesStop
<1> QED
  BY <1>1, ToolTypeInit DEF ToolRestInv

(* Every step keeps the invariant: only update moves a brush, and what it  *)
(* uses is fresh and no older than the silence.                            *)
LEMMA ToolRestKept == ToolRestInv /\ [ToolNext]_toolVars => ToolRestInv'
<1> SUFFICES ASSUME ToolRestInv, [ToolNext]_toolVars PROVE ToolRestInv'
  OBVIOUS
<1>0. /\ ToolTypeOK /\ ToolTypeOK' /\ ToolHeldIsHeard /\ ToolOnlyActiveUpdated /\ ToolDeadman
      /\ brushes \in [Brushes -> Int]
      /\ twist \in TwistType /\ direct \in DirectType
      /\ toolQuiet \in 0..ToolAgeCap
  BY ToolTypeKept DEF ToolRestInv, ToolTypeOK, TwistType, DirectType
<1>a. /\ twist.age \in 0..ToolAgeCap /\ direct.age \in 0..ToolAgeCap
      /\ TwistTimeout \in Nat /\ DirectTimeout \in Nat /\ ToolAgeCap \in Nat
  BY <1>0, ToolWindowsAssumption DEF TwistType, DirectType
<1> DEFINE Kept == ToolHeldIsHeard' /\ ToolOnlyActiveUpdated' /\ ToolDeadman'
<1>1. ASSUME OnToolConfigure PROVE Kept
  BY <1>0, <1>1 DEF OnToolConfigure, ResetToolCommandState, NoTwist, NoDirect,
     ToolHeldIsHeard, ToolOnlyActiveUpdated, ToolDeadman
<1>2. ASSUME OnToolActivate PROVE Kept
  <2>1. \A b \in Brushes : toolStored'[b] => brushes'[b] = 0
    BY <1>0, <1>2, SetFacts, StopType DEF OnToolActivate
  <2> QED
    BY <1>2, <2>1 DEF OnToolActivate, ResetToolCommandState, NoTwist, NoDirect,
       ToolHeldIsHeard, ToolOnlyActiveUpdated, ToolDeadman
<1>3. ASSUME OnToolDeactivate PROVE Kept
  <2>1. \A b \in Brushes : toolStored'[b] => brushes'[b] = 0
    BY <1>0, <1>3, SetFacts, StopType DEF OnToolDeactivate
  <2> QED
    BY <1>0, <1>3, <2>1 DEF OnToolDeactivate, commandVars, ToolHeldIsHeard, Turning, Driving,
       ToolOnlyActiveUpdated, ToolDeadman
<1>4. ASSUME NEW linear \in Components, NEW angular \in Components,
             OnToolCommand(linear, angular)
      PROVE  Kept
  <2>1. toolQuiet' \in {0, toolQuiet} /\ (Turning' => toolQuiet' = 0)
    BY <1>4 DEF OnToolCommand, Heard, Turning
  <2> QED
    BY <1>0, <1>a, <1>4, <2>1 DEF OnToolCommand, ToolHeldIsHeard, Turning, Driving,
       ToolOnlyActiveUpdated, ToolDeadman
<1>5. ASSUME NEW left \in Velocities, NEW right \in Velocities,
             OnToolDirectCommand(left, right)
      PROVE  Kept
  <2>1. toolQuiet' \in {0, toolQuiet} /\ (Driving' => toolQuiet' = 0)
    BY <1>5 DEF OnToolDirectCommand, Heard, Driving
  <2> QED
    BY <1>0, <1>a, <1>5, <2>1 DEF OnToolDirectCommand, ToolHeldIsHeard, Turning, Driving,
       ToolOnlyActiveUpdated, ToolDeadman
<1>6. ASSUME ToolUpdate PROVE Kept
  <2>1. toolLifecycle = "active"
    BY <1>0, <1>6 DEF ToolUpdate, ToolOnlyActiveUpdated
  <2>2. \A b \in Brushes : toolStored'[b] => brushes'[b] = Target[b]
    BY <1>0, <1>6, TargetFacts, SetFacts DEF ToolUpdate
  <2>3. ASSUME TwistTimeout > 0, TwistTimeout < toolQuiet,
               DirectTimeout > 0, DirectTimeout < toolQuiet
        PROVE  \A b \in Brushes : Target[b] = 0
    <3>1. ~(direct.valid /\ IsToolFresh(direct, DirectTimeout) /\ Driving)
      BY <1>0, <1>a, <2>3 DEF IsToolFresh, ToolHeldIsHeard
    <3>2. ~(twist.valid /\ IsToolFresh(twist, TwistTimeout) /\ Turning)
      BY <1>0, <1>a, <2>3 DEF IsToolFresh, ToolHeldIsHeard
    <3> QED
      BY <1>0, <3>1, <3>2, TargetFacts
  <2> QED
    BY <1>0, <1>6, <2>1, <2>2, <2>3 DEF ToolUpdate, commandVars, ToolHeldIsHeard, Turning,
       Driving, ToolOnlyActiveUpdated, ToolDeadman
<1>7. ASSUME ToolPeriod PROVE Kept
  <2>1. /\ twist'.age = ToolOlder(twist.age) /\ twist'.valid = twist.valid
        /\ direct'.age = ToolOlder(direct.age) /\ direct'.valid = direct.valid
        /\ (Turning' <=> Turning) /\ (Driving' <=> Driving)
        /\ toolQuiet' = ToolOlder(toolQuiet)
        /\ toolLifecycle' = toolLifecycle /\ brushes' = brushes /\ toolStored' = toolStored
        /\ ~toolUpdateDue /\ toolUpdateDue' = (toolLifecycle = "active")
    BY <1>0, <1>7 DEF ToolPeriod, TwistType, DirectType, Turning, Driving
  <2>2. /\ toolQuiet <= twist.age => ToolOlder(toolQuiet) <= ToolOlder(twist.age)
        /\ toolQuiet <= direct.age => ToolOlder(toolQuiet) <= ToolOlder(direct.age)
    BY <1>0, <1>a, ToolOlderFacts
  <2> QED
    BY <1>0, <2>1, <2>2 DEF ToolHeldIsHeard, ToolOnlyActiveUpdated, ToolDeadman
<1>8. ASSUME UNCHANGED toolVars PROVE Kept
  BY <1>0, <1>8 DEF toolVars, commandVars, ToolHeldIsHeard, Turning, Driving,
     ToolOnlyActiveUpdated, ToolDeadman
<1> QED
  BY <1>0, <1>1, <1>2, <1>3, <1>4, <1>5, <1>6, <1>7, <1>8 DEF ToolNext, ToolRestInv

(* The brushes stand when the controller is not active, and when nobody    *)
(* has asked for motion since the activation or within the windows, for    *)
(* every speed and every pair of positive timeouts.                        *)
THEOREM SilenceStopsBrushes == ToolSpec => []ToolDeadman
<1>1. ToolRestInv => ToolDeadman
  BY DEF ToolRestInv
<1> QED
  BY <1>1, ToolRestInit, ToolRestKept, PTL DEF ToolSpec

----------------------------------------------------------------------------
(* The direct stop. *)

(* A fresh direct stop holds the brushes, whatever twists arrive, for      *)
(* every pair of timeouts.                                                 *)
THEOREM ToolDirectStopPreempts == ToolSpec => []ToolDirectStopHolds
<1>1. ToolInit => ToolDirectStopHolds
  BY DEF ToolInit, ToolDirectStopHolds, BrushesStop
<1>2. ToolTypeOK /\ ToolDirectStopHolds /\ [ToolNext]_toolVars => ToolDirectStopHolds'
  <2> SUFFICES ASSUME ToolTypeOK, ToolDirectStopHolds, [ToolNext]_toolVars,
                      toolLifecycle' = "active", ~toolUpdateDue', direct'.valid,
                      direct'.age \in 1..DirectTimeout, ~Driving',
                      NEW b \in Brushes, toolStored'[b]
               PROVE  brushes'[b] = 0
    BY DEF ToolDirectStopHolds, Driving
  <2>1. CASE OnToolConfigure
    BY <2>1 DEF OnToolConfigure
  <2>2. CASE OnToolActivate
    BY <2>2 DEF OnToolActivate, ResetToolCommandState, NoDirect
  <2>3. CASE OnToolDeactivate
    BY <2>3 DEF OnToolDeactivate
  <2>4. ASSUME NEW linear \in Components, NEW angular \in Components,
               OnToolCommand(linear, angular)
        PROVE  brushes'[b] = 0
    BY <2>4 DEF OnToolCommand, ToolDirectStopHolds, Driving
  <2>5. ASSUME NEW left \in Velocities, NEW right \in Velocities,
               OnToolDirectCommand(left, right)
        PROVE  brushes'[b] = 0
    BY <2>5 DEF OnToolDirectCommand
  <2>6. CASE ToolUpdate
    <3>1. direct.valid /\ IsToolFresh(direct, DirectTimeout) /\ ~Driving
      BY <2>6, ToolWindowsAssumption DEF ToolUpdate, commandVars, IsToolFresh, Driving
    <3>2. Target \in [Brushes -> Int] /\ Target[b] = 0
      BY <3>1, TargetFacts DEF Driving, Brushes
    <3>3. brushes'[b] = Target[b]
      BY <2>6, <3>2, SetFacts DEF ToolUpdate, ToolTypeOK
    <3> QED
      BY <3>2, <3>3
  <2>7. CASE ToolPeriod
    BY <2>7 DEF ToolPeriod
  <2>8. CASE UNCHANGED toolVars
    BY <2>8 DEF toolVars, commandVars, ToolDirectStopHolds, Driving
  <2> QED
    BY <2>1, <2>2, <2>3, <2>4, <2>5, <2>6, <2>7, <2>8 DEF ToolNext
<1> QED
  BY <1>1, <1>2, ToolTypeInit, ToolTypeKept, PTL DEF ToolSpec

----------------------------------------------------------------------------
(* The ceiling. *)

(* A product with a bounded factor is bounded.                             *)
LEMMA BoundedBrush ==
    ASSUME NEW m \in Nat, NEW n \in Nat, NEW a \in -m..m
    PROVE  a * n \in -(m * n)..(m * n)
<1>1. (m - a) * n >= 0 /\ (m + a) * n >= 0
  OBVIOUS
<1>2. (m - a) * n = m * n - a * n /\ (m + a) * n = m * n + a * n
  OBVIOUS
<1>3. m * n \in Int /\ a * n \in Int
  OBVIOUS
<1> QED
  BY <1>1, <1>2, <1>3

(* Doubling a factor doubles the product.                                  *)
LEMMA DoubleProduct ==
    ASSUME NEW m \in Nat, NEW n \in Nat
    PROVE  (2 * m) * n = 2 * (m * n)
<1>1. 2 * m = m + m /\ (m + m) * n = m * n + m * n /\ m * n \in Int
  OBVIOUS
<1> QED
  BY <1>1

(* What a brush may be told: the velocities up to twice the maximum, and   *)
(* those of the direct commands.                                           *)
Bound == 2 * (Unit * MaxToolSpeed)
Allowed == (-Bound..Bound) \cup Velocities

(* A twist, however large its components, stays below the bound.           *)
LEMMA TwistBelowBound ==
    ASSUME twist \in TwistType, NEW b \in Brushes
    PROVE  FromTwist[b] \in -Bound..Bound
<1> DEFINE l == ClampUnit(twist.linear)
           a == ClampUnit(twist.angular)
           full == 2 * Unit
<1>1. l \in -Unit..Unit /\ a \in -Unit..Unit
  <2>1. twist.linear \in Int /\ twist.angular \in Int
    BY ToolInputsAssumption DEF TwistType
  <2> QED
    BY <2>1, ClampFacts
<1>2. FromTwist[b] = IF b = "left" THEN (l - a) * MaxToolSpeed ELSE (l + a) * MaxToolSpeed
  BY DEF FromTwist
<1> HIDE DEF l, a
<1>3. full \in Nat /\ l - a \in -full..full /\ l + a \in -full..full
  BY <1>1, ToolInputsAssumption
<1>4. full * MaxToolSpeed = Bound
  BY DoubleProduct, ToolInputsAssumption DEF Bound
<1> HIDE DEF full
<1>5. /\ (l - a) * MaxToolSpeed \in -(full * MaxToolSpeed)..(full * MaxToolSpeed)
      /\ (l + a) * MaxToolSpeed \in -(full * MaxToolSpeed)..(full * MaxToolSpeed)
  BY <1>3, BoundedBrush, ToolInputsAssumption
<1> QED
  BY <1>2, <1>4, <1>5

(* No tool twist drives a brush above twice the maximum, for every full    *)
(* scale, every maximum and all components; only a direct command, which   *)
(* is not clamped, does.                                                   *)
THEOREM BrushCeilingHolds == ToolSpec => []BrushCeiling
<1> DEFINE Below == \A b \in Brushes : brushes[b] \in Allowed
<1>0. 0 \in Allowed
  BY ToolInputsAssumption DEF Allowed
<1>1. ToolInit => Below
  BY <1>0 DEF ToolInit, BrushesStop
<1>2. ToolTypeOK /\ Below /\ [ToolNext]_toolVars => Below'
  <2> SUFFICES ASSUME ToolTypeOK, Below, [ToolNext]_toolVars, NEW b \in Brushes
               PROVE  brushes'[b] \in Allowed
    OBVIOUS
  <2>1. ASSUME NEW value, \A c \in Brushes : value[c] \in Allowed, SetHardwareCommand(value)
        PROVE  brushes'[b] \in Allowed
    BY <2>1 DEF SetHardwareCommand
  <2>2. \A c \in Brushes : BrushesStop[c] \in Allowed
    BY <1>0 DEF BrushesStop
  <2>3. \A c \in Brushes : Target[c] \in Allowed
    <3>1. twist \in TwistType /\ direct.left \in Velocities /\ direct.right \in Velocities
      BY DEF ToolTypeOK, TwistType
    <3>2. \A c \in Brushes : FromTwist[c] \in Allowed /\ direct[c] \in Allowed
      BY <3>1, TwistBelowBound DEF Allowed, Brushes
    <3> QED
      BY <2>2, <3>2 DEF Target
  <2>4. CASE brushes' = brushes
    BY <2>4
  <2> HIDE DEF Below
  <2> QED
    BY <2>1, <2>2, <2>3, <2>4 DEF ToolNext, OnToolConfigure, OnToolActivate, OnToolDeactivate,
       ToolUpdate, OnToolCommand, OnToolDirectCommand, ToolPeriod, toolVars
<1>3. Below => BrushCeiling
  BY DEF Allowed, Bound, BrushCeiling
<1> QED
  BY <1>1, <1>2, <1>3, ToolTypeInit, ToolTypeKept, PTL DEF ToolSpec

=============================================================================
