----------------------- MODULE DriveControllerProofs -----------------------
(***************************************************************************)
(* Theorems about DriveController, for every set of commands, every        *)
(* geometry, every limit and every timeout, with writes that fail or not.  *)
(***************************************************************************)
EXTENDS DriveController, TLAPS

Moves(command) == command.linear # 0 \/ command.angular # 0

(***************************************************************************)
(* The strengthening that makes Deadman inductive: a moving command that   *)
(* is held is at least as old as the silence, and the loop updates none    *)
(* but an active controller.                                               *)
(***************************************************************************)
HeldIsHeard ==
    \A t \in CommandTopics : held[t].valid /\ Moves(held[t]) => quiet <= held[t].age

OnlyActiveUpdated == lifecycle # "active" => ~updateDue

RestInv == TypeOK /\ HeldIsHeard /\ OnlyActiveUpdated /\ Deadman

----------------------------------------------------------------------------
(* Lemmas about the operators. *)

Command == [valid : BOOLEAN, age : 0..AgeCap, linear : Speeds, angular : Speeds]

(* A symmetric clamp keeps integers, zero and, when it limits, its bound.  *)
LEMMA LimitedFacts ==
    ASSUME NEW value \in Int, NEW limit \in Nat
    PROVE  /\ Limited(value, limit) \in Int
           /\ value = 0 => Limited(value, limit) = 0
           /\ LimitEnabled /\ limit > 0 => Limited(value, limit) \in -limit..limit
  BY DEF Limited, ClampSymmetric

(* The empty command is a command. *)
LEMMA NothingType == Nothing \in Command
  BY SpeedsAssumption, TimesAssumption DEF Nothing, Command

(* The command in force is one that is held and usable, or none at all.    *)
LEMMA InForceFacts ==
    ASSUME TypeOK
    PROVE  /\ InForce \in Command
           /\ \/ InForce = Nothing
              \/ \E t \in CommandTopics : Usable(t) /\ InForce = held[t]
  BY NothingType DEF InForce, TypeOK, Command, CommandTopics

(* A wheel value is an integer, and zero for a command that does not move. *)
LEMMA WheelVelocityFacts ==
    ASSUME NEW command \in Command, NEW w \in Wheels
    PROVE  /\ WheelVelocity(command, w) \in Int
           /\ ~Moves(command) => WheelVelocity(command, w) = 0
<1>1. command.linear \in Int /\ command.angular \in Int
  BY SpeedsAssumption DEF Command
<1> DEFINE l == Limited(command.linear, MaxLinear)
           a == Limited(command.angular, MaxAngular)
<1>2. /\ l \in Int /\ a \in Int
      /\ ~Moves(command) => l = 0 /\ a = 0
  BY <1>1, LimitedFacts, GeometryAssumption DEF Moves
<1>3. WheelVelocity(command, w) = IF w = "left" THEN 2 * l - a * Separation
                                                ELSE 2 * l + a * Separation
  BY DEF WheelVelocity
<1> HIDE DEF l, a
<1>4. a * Separation \in Int /\ (a = 0 => a * Separation = 0)
  BY <1>2, GeometryAssumption
<1> QED
  BY <1>2, <1>3, <1>4

(* After a write an interface has the new value or still its own, and an   *)
(* accepted write is the new value.                                        *)
LEMMA WriteFacts ==
    ASSUME NEW value \in [Wheels -> Int], wheels \in [Wheels -> Int], Write(value)
    PROVE  /\ wheels' \in [Wheels -> Int] /\ stored' \in [Wheels -> BOOLEAN]
           /\ \A w \in Wheels : wheels'[w] \in {value[w], wheels[w]}
           /\ \A w \in Wheels : stored'[w] => wheels'[w] = value[w]
  BY DEF Write

(* Both wheels at rest is a value for them. *)
LEMMA AllStopType == AllStop \in [Wheels -> Int] /\ \A w \in Wheels : AllStop[w] = 0
  BY DEF AllStop

(* Ageing is monotone and stays below the cap. *)
LEMMA OlderFacts ==
    ASSUME NEW a \in 0..AgeCap, NEW b \in 0..AgeCap
    PROVE  /\ Older(a) \in 0..AgeCap /\ a <= Older(a)
           /\ a <= b => Older(a) <= Older(b)
  BY TimesAssumption DEF Older

----------------------------------------------------------------------------
(* Types. *)

(* No step breaks a type. *)
LEMMA TypeKept == TypeOK /\ [Next]_driveVars => TypeOK'
<1> SUFFICES ASSUME TypeOK, [Next]_driveVars PROVE TypeOK'
  OBVIOUS
<1>0. /\ held \in [CommandTopics -> Command] /\ wheels \in [Wheels -> Int]
      /\ [t \in CommandTopics |-> Nothing] \in [CommandTopics -> Command]
      /\ AgeCap \in 0..AgeCap /\ 0 \in 0..AgeCap
  BY NothingType, TimesAssumption DEF TypeOK, Command
<1>1. CASE OnConfigure
  BY <1>0, <1>1 DEF OnConfigure, ResetCommandState, TypeOK, Command
<1>2. CASE OnActivate
  <2>1. wheels' \in [Wheels -> Int] /\ stored' \in [Wheels -> BOOLEAN]
    BY <1>0, <1>2, WriteFacts, AllStopType DEF OnActivate
  <2> QED
    BY <1>0, <1>2, <2>1 DEF OnActivate, ResetCommandState, TypeOK, Command
<1>3. CASE OnDeactivate
  <2>1. wheels' \in [Wheels -> Int] /\ stored' \in [Wheels -> BOOLEAN]
    BY <1>0, <1>3, WriteFacts, AllStopType DEF OnDeactivate
  <2> QED
    BY <1>3, <2>1 DEF OnDeactivate, TypeOK
<1>4. ASSUME NEW topic \in CommandTopics, NEW linear \in Speeds, NEW angular \in Speeds,
             OnCommand(topic, linear, angular)
      PROVE  TypeOK'
  <2>1. [valid |-> TRUE, age |-> 0, linear |-> linear, angular |-> angular] \in Command
    BY <1>0 DEF Command
  <2> QED
    BY <1>0, <1>4, <2>1 DEF OnCommand, TypeOK, Command
<1>5. CASE Update
  <2>1. [w \in Wheels |-> WheelVelocity(InForce, w)] \in [Wheels -> Int]
    BY InForceFacts, WheelVelocityFacts
  <2>2. wheels' \in [Wheels -> Int] /\ stored' \in [Wheels -> BOOLEAN]
    BY <1>0, <1>5, <2>1, WriteFacts DEF Update
  <2> QED
    BY <1>5, <2>2 DEF Update, TypeOK
<1>6. CASE Period
  <2>1. held' \in [CommandTopics -> Command]
    BY <1>0, <1>6, OlderFacts DEF Period, Command
  <2>2. quiet' \in 0..AgeCap
    BY <1>6, OlderFacts DEF Period, TypeOK
  <2> QED
    BY <1>6, <2>1, <2>2 DEF Period, TypeOK, Command
<1>7. CASE UNCHANGED driveVars
  BY <1>7 DEF driveVars, TypeOK
<1> QED
  BY <1>1, <1>2, <1>3, <1>4, <1>5, <1>6, <1>7
     DEF Next, OnWheelCommand, OnDirectCommand, CommandTopics

(* The initial state has the types. *)
LEMMA TypeInit == Init => TypeOK
<1>1. [t \in CommandTopics |-> Nothing] \in [CommandTopics -> Command]
  BY NothingType
<1>2. AgeCap \in 0..AgeCap
  BY TimesAssumption
<1>3. [w \in Wheels |-> TRUE] \in [Wheels -> BOOLEAN]
  OBVIOUS
<1> QED
  BY <1>1, <1>2, <1>3, AllStopType DEF Init, TypeOK, Command

(* Every variable keeps its type, for every value of the constants.        *)
THEOREM DriveTypeCorrect == Spec => []TypeOK
  BY TypeInit, TypeKept, PTL DEF Spec

----------------------------------------------------------------------------
(* The deadman. *)

(* The initial state has the invariant. *)
LEMMA RestInit == Init => RestInv
<1>1. Init => HeldIsHeard /\ OnlyActiveUpdated /\ Deadman
  BY DEF Init, HeldIsHeard, OnlyActiveUpdated, Deadman, Nothing, AllStop
<1> QED
  BY <1>1, TypeInit DEF RestInv

(* Every step keeps the invariant: only update moves a wheel, and what it  *)
(* uses is fresh and no older than the silence.                            *)
LEMMA RestKept == RestInv /\ [Next]_driveVars => RestInv'
<1> SUFFICES ASSUME RestInv, [Next]_driveVars PROVE RestInv'
  OBVIOUS
<1>0. /\ TypeOK /\ TypeOK' /\ HeldIsHeard /\ OnlyActiveUpdated /\ Deadman
      /\ wheels \in [Wheels -> Int]
      /\ held \in [CommandTopics -> Command]
      /\ quiet \in 0..AgeCap
  BY TypeKept DEF RestInv, TypeOK, Command
<1> DEFINE Kept == HeldIsHeard' /\ OnlyActiveUpdated' /\ Deadman'
<1>1. ASSUME OnConfigure PROVE Kept
  BY <1>0, <1>1 DEF OnConfigure, ResetCommandState, Nothing, HeldIsHeard,
     OnlyActiveUpdated, Deadman
<1>2. ASSUME OnActivate PROVE Kept
  <2>1. \A w \in Wheels : stored'[w] => wheels'[w] = 0
    BY <1>0, <1>2, WriteFacts, AllStopType DEF OnActivate
  <2> QED
    BY <1>2, <2>1 DEF OnActivate, ResetCommandState, Nothing, HeldIsHeard,
       OnlyActiveUpdated, Deadman
<1>3. ASSUME OnDeactivate PROVE Kept
  <2>1. \A w \in Wheels : stored'[w] => wheels'[w] = 0
    BY <1>0, <1>3, WriteFacts, AllStopType DEF OnDeactivate
  <2> QED
    BY <1>0, <1>3, <2>1 DEF OnDeactivate, HeldIsHeard, OnlyActiveUpdated, Deadman
<1>4. ASSUME NEW topic \in CommandTopics, NEW linear \in Speeds, NEW angular \in Speeds,
             OnCommand(topic, linear, angular)
      PROVE  Kept
  <2> DEFINE new == [valid |-> TRUE, age |-> 0, linear |-> linear, angular |-> angular]
  <2>1. /\ held'[topic] = new
        /\ \A t \in CommandTopics \ {topic} : held'[t] = held[t]
        /\ lifecycle' = lifecycle /\ wheels' = wheels /\ stored' = stored
        /\ updateDue' = updateDue
        /\ quiet' = IF Moves(new) THEN 0 ELSE quiet
    BY <1>0, <1>4 DEF OnCommand, Moves
  <2>2. quiet' <= quiet /\ quiet' \in Nat /\ quiet \in Nat
    BY <1>0, <2>1, TimesAssumption
  <2>3. ASSUME NEW t \in CommandTopics, held'[t].valid, Moves(held'[t])
        PROVE  quiet' <= held'[t].age
    <3>1. CASE t = topic
      BY <2>1, <2>3, <3>1
    <3>2. CASE t # topic
      <4>1. quiet <= held[t].age /\ held[t].age \in Nat
        BY <1>0, <2>1, <2>3, <3>2 DEF HeldIsHeard, Command
      <4> QED
        BY <2>1, <2>2, <3>2, <4>1
    <3> QED
      BY <3>1, <3>2
  <2>4. Deadman'
    <3>1. \A t \in CommandTopics : Timeout[t] \in Nat
      BY TimesAssumption
    <3>2. \A t \in CommandTopics : Timeout[t] < quiet' => Timeout[t] < quiet
      BY <2>2, <3>1
    <3> QED
      BY <1>0, <2>1, <3>2 DEF Deadman
  <2> QED
    BY <1>0, <2>1, <2>3, <2>4 DEF HeldIsHeard, OnlyActiveUpdated
<1>5. ASSUME Update PROVE Kept
  <2>1. lifecycle = "active"
    BY <1>0, <1>5 DEF Update, OnlyActiveUpdated
  <2>2. \A w \in Wheels : stored'[w] => wheels'[w] = WheelVelocity(InForce, w)
    <3> DEFINE value == [w \in Wheels |-> WheelVelocity(InForce, w)]
    <3>1. value \in [Wheels -> Int]
      BY <1>0, InForceFacts, WheelVelocityFacts
    <3>2. \A w \in Wheels : stored'[w] => wheels'[w] = value[w]
      BY <1>0, <1>5, <3>1, WriteFacts DEF Update
    <3> QED
      BY <3>2
  <2>3. ASSUME \A t \in CommandTopics : Timeout[t] > 0 /\ Timeout[t] < quiet
        PROVE  ~Moves(InForce)
    <3>1. ASSUME NEW t \in CommandTopics, Usable(t), Moves(held[t])
          PROVE  FALSE
      <4>1. quiet <= held[t].age /\ held[t].age <= Timeout[t]
        BY <1>0, <2>3, <3>1, TimesAssumption DEF HeldIsHeard, Usable, IsFresh
      <4>2. held[t].age \in Nat /\ Timeout[t] \in Nat /\ quiet \in Nat
        BY <1>0, TimesAssumption DEF Command
      <4> QED
        BY <2>3, <4>1, <4>2
    <3>2. CASE InForce = Nothing
      BY <3>2 DEF Nothing, Moves
    <3>3. CASE \E t \in CommandTopics : Usable(t) /\ InForce = held[t]
      BY <3>1, <3>3
    <3> QED
      BY <1>0, <3>2, <3>3, InForceFacts
  <2>4. ~Moves(InForce) => \A w \in Wheels : WheelVelocity(InForce, w) = 0
    BY <1>0, InForceFacts, WheelVelocityFacts
  <2> QED
    BY <1>0, <1>5, <2>1, <2>2, <2>3, <2>4
       DEF Update, HeldIsHeard, OnlyActiveUpdated, Deadman
<1>6. ASSUME Period PROVE Kept
  <2>1. /\ \A t \in CommandTopics : /\ held'[t].age = Older(held[t].age)
                                    /\ held'[t].valid = held[t].valid
                                    /\ Moves(held'[t]) <=> Moves(held[t])
        /\ lifecycle' = lifecycle /\ wheels' = wheels /\ stored' = stored
        /\ ~updateDue /\ updateDue' = (lifecycle = "active") /\ quiet' = Older(quiet)
    BY <1>0, <1>6 DEF Period, Command, Moves
  <2>2. \A t \in CommandTopics : held[t].age \in 0..AgeCap
    BY <1>0 DEF Command
  <2>3. \A t \in CommandTopics : quiet <= held[t].age => Older(quiet) <= Older(held[t].age)
    BY <1>0, <2>2, OlderFacts
  <2> QED
    BY <1>0, <2>1, <2>3 DEF HeldIsHeard, OnlyActiveUpdated, Deadman
<1>7. ASSUME UNCHANGED driveVars PROVE Kept
  BY <1>0, <1>7 DEF driveVars, HeldIsHeard, OnlyActiveUpdated, Deadman
<1> QED
  BY <1>0, <1>1, <1>2, <1>3, <1>4, <1>5, <1>6, <1>7
     DEF Next, OnWheelCommand, OnDirectCommand, CommandTopics, RestInv

(* The wheels stand when the controller is not active, and when nobody has *)
(* asked for motion since the activation or within the windows, for every  *)
(* geometry, every limit and every pair of positive timeouts.              *)
THEOREM SilenceStopsWheels == Spec => []Deadman
<1>1. RestInv => Deadman
  BY DEF RestInv
<1> QED
  BY <1>1, RestInit, RestKept, PTL DEF Spec

----------------------------------------------------------------------------
(* The direct stop. *)

(* A fresh direct stop holds the wheels, whatever twists arrive, for every *)
(* pair of timeouts.                                                       *)
THEOREM DirectStopPreempts == Spec => []DirectStopHolds
<1>1. Init => DirectStopHolds
  BY DEF Init, DirectStopHolds, AllStop
<1>2. TypeOK /\ DirectStopHolds /\ [Next]_driveVars => DirectStopHolds'
  <2> SUFFICES ASSUME TypeOK, DirectStopHolds, [Next]_driveVars,
                      lifecycle' = "active", ~updateDue', held'["direct"].valid,
                      held'["direct"].age \in 1..Timeout["direct"],
                      ~Moves(held'["direct"]),
                      NEW w \in Wheels, stored'[w]
               PROVE  wheels'[w] = 0
    BY DEF DirectStopHolds, Moves
  <2>0. /\ wheels \in [Wheels -> Int]
        /\ held \in [CommandTopics -> Command]
        /\ "direct" \in CommandTopics
    BY DEF TypeOK, Command, CommandTopics
  <2>1. CASE OnConfigure
    BY <2>1 DEF OnConfigure
  <2>2. CASE OnActivate
    BY <2>0, <2>2 DEF OnActivate, ResetCommandState, Nothing
  <2>3. CASE OnDeactivate
    BY <2>3 DEF OnDeactivate
  <2>4. ASSUME NEW topic \in CommandTopics, NEW linear \in Speeds, NEW angular \in Speeds,
               OnCommand(topic, linear, angular)
        PROVE  wheels'[w] = 0
    <3>1. CASE topic = "direct"
      BY <2>0, <2>4, <3>1 DEF OnCommand
    <3>2. CASE topic # "direct"
      <4>1. held'["direct"] = held["direct"]
        BY <2>0, <2>4, <3>2 DEF OnCommand
      <4> QED
        BY <2>4, <4>1 DEF OnCommand, DirectStopHolds, Moves
    <3> QED
      BY <3>1, <3>2
  <2>5. CASE Update
    <3> DEFINE value == [v \in Wheels |-> WheelVelocity(InForce, v)]
    <3>1. value \in [Wheels -> Int]
      BY InForceFacts, WheelVelocityFacts
    <3>2. wheels'[w] = value[w]
      BY <2>0, <2>5, <3>1, WriteFacts DEF Update
    <3>3. held["direct"].valid /\ held["direct"].age <= Timeout["direct"] /\ ~Moves(held["direct"])
      BY <2>5, TimesAssumption DEF Update
    <3>4. InForce = held["direct"]
      BY <3>3 DEF InForce, Usable, IsFresh
    <3>5. WheelVelocity(InForce, w) = 0
      BY <2>0, <3>3, <3>4, WheelVelocityFacts
    <3> QED
      BY <3>2, <3>5
  <2>6. CASE Period
    BY <2>6 DEF Period
  <2>7. CASE UNCHANGED driveVars
    BY <2>7 DEF driveVars, DirectStopHolds, Moves
  <2> QED
    BY <2>1, <2>2, <2>3, <2>4, <2>5, <2>6, <2>7
       DEF Next, OnWheelCommand, OnDirectCommand, CommandTopics
<1> QED
  BY <1>1, <1>2, TypeInit, TypeKept, PTL DEF Spec

----------------------------------------------------------------------------
(* The ceiling. *)

(* A product with a bounded factor is bounded.                             *)
LEMMA BoundedProduct ==
    ASSUME NEW m \in Nat, NEW n \in Nat, NEW a \in -m..m
    PROVE  a * n \in -(m * n)..(m * n)
<1>1. (m - a) * n >= 0 /\ (m + a) * n >= 0
  OBVIOUS
<1>2. (m - a) * n = m * n - a * n /\ (m + a) * n = m * n + a * n
  OBVIOUS
<1>3. m * n \in Int /\ a * n \in Int
  OBVIOUS
<1> QED
  BY <1>1, <1>2, <1>3

(* Twice the rim speed at both limits of the chassis. *)
Ceiling == 2 * MaxLinear + MaxAngular * Separation

(* Under both limits every command, direct ones included, stays below.     *)
LEMMA WheelBelowCeiling ==
    ASSUME LimitEnabled, MaxLinear > 0, MaxAngular > 0,
           NEW command \in Command, NEW w \in Wheels
    PROVE  WheelVelocity(command, w) \in -Ceiling..Ceiling
<1>1. command.linear \in Int /\ command.angular \in Int
  BY SpeedsAssumption DEF Command
<1> DEFINE l == Limited(command.linear, MaxLinear)
           a == Limited(command.angular, MaxAngular)
<1>2. l \in -MaxLinear..MaxLinear /\ a \in -MaxAngular..MaxAngular
  BY <1>1, LimitedFacts, GeometryAssumption
<1>3. WheelVelocity(command, w) = IF w = "left" THEN 2 * l - a * Separation
                                                ELSE 2 * l + a * Separation
  BY DEF WheelVelocity
<1> HIDE DEF l, a
<1>4. a * Separation \in -(MaxAngular * Separation)..(MaxAngular * Separation)
  BY <1>2, BoundedProduct, GeometryAssumption
<1>5. MaxAngular * Separation \in Int /\ MaxLinear \in Int
  BY GeometryAssumption
<1> DEFINE turn == a * Separation
           most == MaxAngular * Separation
<1>6. turn \in -most..most /\ most \in Int
  BY <1>4, <1>5
<1>7. Ceiling = 2 * MaxLinear + most
  BY DEF Ceiling
<1> HIDE DEF turn, most
<1>8. 2 * l - turn \in -Ceiling..Ceiling /\ 2 * l + turn \in -Ceiling..Ceiling
  BY <1>2, <1>5, <1>6, <1>7
<1> QED
  BY <1>3, <1>8 DEF turn

(* No command drives a wheel above the ceiling of the chassis, for every   *)
(* geometry and every pair of positive limits.                             *)
THEOREM ChassisCeilingHolds == Spec => []ChassisCeiling
<1> DEFINE Below == LimitEnabled /\ MaxLinear > 0 /\ MaxAngular > 0
                       => \A w \in Wheels : wheels[w] \in -Ceiling..Ceiling
<1>0. Ceiling \in Nat
  BY GeometryAssumption DEF Ceiling
<1>1. Init => Below
  BY <1>0 DEF Init, AllStop
<1>2. TypeOK /\ Below /\ [Next]_driveVars => Below'
  <2> SUFFICES ASSUME TypeOK, Below, [Next]_driveVars,
                      LimitEnabled, MaxLinear > 0, MaxAngular > 0, NEW w \in Wheels
               PROVE  wheels'[w] \in -Ceiling..Ceiling
    OBVIOUS
  <2>0. wheels \in [Wheels -> Int] /\ wheels[w] \in -Ceiling..Ceiling
    BY DEF TypeOK
  <2>1. ASSUME Write(AllStop) PROVE wheels'[w] \in -Ceiling..Ceiling
    <3>1. wheels'[w] \in {AllStop[w], wheels[w]}
      BY <2>0, <2>1, WriteFacts, AllStopType
    <3> QED
      BY <1>0, <2>0, <3>1, AllStopType
  <2>2. CASE Update
    <3> DEFINE value == [v \in Wheels |-> WheelVelocity(InForce, v)]
    <3>1. value \in [Wheels -> Int]
      BY InForceFacts, WheelVelocityFacts
    <3>2. wheels'[w] \in {value[w], wheels[w]}
      BY <2>0, <2>2, <3>1, WriteFacts DEF Update
    <3>3. value[w] \in -Ceiling..Ceiling
      BY InForceFacts, WheelBelowCeiling
    <3> QED
      BY <2>0, <3>2, <3>3
  <2>3. CASE wheels' = wheels
    BY <2>0, <2>3
  <2> QED
    BY <2>1, <2>2, <2>3 DEF Next, OnConfigure, OnActivate, OnDeactivate,
       OnWheelCommand, OnDirectCommand, OnCommand, Period, driveVars
<1>3. Below => ChassisCeiling
  BY DEF ChassisCeiling, Ceiling
<1> QED
  BY <1>1, <1>2, <1>3, TypeInit, TypeKept, PTL DEF Spec

=============================================================================
