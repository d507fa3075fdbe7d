--------------------------- MODULE SweepingProofs ---------------------------
(***************************************************************************)
(* Theorems about SweepingController, for every set of enabled sources,    *)
(* every timeout, every priority and every gain.                           *)
(***************************************************************************)
EXTENDS SweepingController, TLAPS

(* Which topics may stand behind the command that a source holds. *)
WheelTopics == [safety_stop |-> {"idle", "safety_stop"},
                joystick    |-> {"idle", "joystick"},
                navigation  |-> {"idle", "navigation"}]
ToolTopics == [safety_stop |-> {"idle", "safety_stop"},
               joystick    |-> {"idle", "tool_joystick"},
               navigation  |-> {"idle", "navigation", "joystick"}]
KnownOrigin == \A s \in Sources : /\ wheel[s].command.topic \in WheelTopics[s]
                                  /\ tool[s].command.topic \in ToolTopics[s]

(* Wheels and tools hold the same stop, it moves nothing, and without a    *)
(* stop it is as old as can be.                                            *)
StopHeld ==
    /\ wheel["safety_stop"] = tool["safety_stop"]
    /\ ~wheel["safety_stop"].command.moving
    /\ wheel["safety_stop"].age < AgeCap =>
          /\ wheel["safety_stop"].seen
          /\ wheel["safety_stop"].command.topic = "safety_stop"

(* What one leader left with the tools is older than the change of mode    *)
(* that gave them to the other.                                            *)
LeaderLeft ==
    \/ /\ tool["navigation"].command.topic = "navigation" => ~OneStickActive
       /\ tool["navigation"].command.topic = "joystick" => OneStickActive
    \/ steady <= tool["navigation"].age

(* The invariant of what the node holds; the properties of what it         *)
(* publishes follow from it.                                               *)
HeldInv == TypeOK /\ KnownOrigin /\ StopHeld /\ LeaderLeft

----------------------------------------------------------------------------
(* Types. *)

Command == Twist \cup {ZeroTwist}

(* A received command is a held one of age zero. *)
LEMMA ReceivedType == ASSUME NEW command \in Command PROVE Received(command) \in Held
  BY WindowsAssumption DEF Received, Held, Command

(* Scaling and mapping keep the topic of a command. *)
LEMMA DerivedTwist ==
    ASSUME NEW command \in Twist, NEW positive \in BOOLEAN
    PROVE  /\ ScaledTwist(command, positive) \in Twist
           /\ ScaledTwist(command, positive).topic = command.topic
           /\ BuildToolNavigationCommand(command) \in Twist
           /\ BuildToolNavigationCommand(command).topic = command.topic
  BY SourcesAssumption DEF ScaledTwist, BuildToolNavigationCommand, Twist

(* Ageing stays below the cap. *)
LEMMA OlderType == ASSUME NEW age \in 0..AgeCap
                   PROVE  Older(age) \in 0..AgeCap /\ age <= Older(age)
  BY WindowsAssumption DEF Older

(* Ageing changes the age of each source and nothing else. *)
LEMMA AgedType ==
    ASSUME NEW state \in [Sources -> Held]
    PROVE  /\ Aged(state) \in [Sources -> Held]
           /\ \A s \in Sources :
                 /\ Aged(state)[s].age = Older(state[s].age)
                 /\ Aged(state)[s].seen = state[s].seen
                 /\ Aged(state)[s].command = state[s].command
  BY OlderType DEF Aged, Held

(* What is published is the command of a fresh source, or nothing. *)
LEMMA SelectedType ==
    ASSUME NEW active \in SUBSET Sources, NEW state \in [Sources -> Held], NEW priority,
           NEW sent \in Selected(active, state, priority)
    PROVE  sent \in Command \cup {Silence}
  BY DEF Selected, Best, Held, Command

(* The initial state has the types. *)
LEMMA TypeInit == Init => TypeOK
<1>1. Unheard \in Held
  BY WindowsAssumption DEF Unheard, Held
<1>2. Init => /\ mode \in [seen : BOOLEAN, age : 0..AgeCap, oneStick : BOOLEAN]
              /\ wheelSent \in Twist \cup {ZeroTwist, Silence}
              /\ toolSent \in Twist \cup {ZeroTwist, Silence}
              /\ steady \in 0..AgeCap
  BY WindowsAssumption DEF Init
<1>3. Init => wheel \in [Sources -> Held] /\ tool \in [Sources -> Held]
  BY <1>1 DEF Init
<1> QED
  BY <1>1, <1>2, <1>3 DEF Init, TypeOK

(* No step of the node breaks a type. *)
LEMMA TypeKept == TypeOK /\ [Next]_sweepVars => TypeOK'
<1> SUFFICES ASSUME TypeOK, [Next]_sweepVars PROVE TypeOK'
  OBVIOUS
<1>1. ASSUME NEW moving \in BOOLEAN,
             HandleWheelJoystickCommand([topic |-> "joystick", moving |-> moving])
      PROVE  TypeOK'
  <2> DEFINE c == [topic |-> "joystick", moving |-> moving]
  <2>1. c \in Twist
    BY DEF Twist, Topics
  <2>2. /\ (IF OneStickActive THEN ScaledTwist(c, wheelScale) ELSE c) \in Command
        /\ ScaledTwist(BuildToolNavigationCommand(c), toolScale) \in Command
    BY <2>1, DerivedTwist DEF TypeOK, Command
  <2> HIDE DEF c
  <2>3. /\ Received(IF OneStickActive THEN ScaledTwist(c, wheelScale) ELSE c) \in Held
        /\ Received(ScaledTwist(BuildToolNavigationCommand(c), toolScale)) \in Held
    BY <2>2, ReceivedType
  <2>4. HandleWheelJoystickCommand(c)
    BY <1>1 DEF c
  <2> QED
    BY <2>3, <2>4 DEF HandleWheelJoystickCommand, TypeOK, teleopVars, sentVars
<1>2. ASSUME NEW moving \in BOOLEAN,
             HandleWheelNavigationCommand([topic |-> "navigation", moving |-> moving])
      PROVE  TypeOK'
  <2> DEFINE c == [topic |-> "navigation", moving |-> moving]
  <2>1. c \in Twist
    BY DEF Twist, Topics
  <2>2. c \in Command /\ BuildToolNavigationCommand(c) \in Command
    BY <2>1, DerivedTwist DEF Command
  <2> HIDE DEF c
  <2>3. Received(c) \in Held /\ Received(BuildToolNavigationCommand(c)) \in Held
    BY <2>2, ReceivedType
  <2>4. HandleWheelNavigationCommand(c)
    BY <1>2 DEF c
  <2> QED
    BY <2>3, <2>4 DEF HandleWheelNavigationCommand, TypeOK, teleopVars, sentVars
<1>3. ASSUME NEW moving \in BOOLEAN,
             HandleToolJoystickCommand([topic |-> "tool_joystick", moving |-> moving])
      PROVE  TypeOK'
  <2>1. Received([topic |-> "tool_joystick", moving |-> moving]) \in Held
    BY ReceivedType DEF Command, Twist, Topics
  <2> QED
    BY <1>3, <2>1 DEF HandleToolJoystickCommand, TypeOK, teleopVars, sentVars
<1>4. ASSUME HandleSafetyStopCommand([topic |-> "safety_stop", moving |-> FALSE])
      PROVE  TypeOK'
  <2>1. Received([topic |-> "safety_stop", moving |-> FALSE]) \in Held
    BY ReceivedType DEF Command, Twist, Topics
  <2> QED
    BY <1>4, <2>1 DEF HandleSafetyStopCommand, TypeOK, teleopVars, sentVars
<1>5. ASSUME NEW oneStick \in BOOLEAN, HandleControlMode(oneStick)
      PROVE  TypeOK'
  BY <1>5, WindowsAssumption DEF HandleControlMode, SteadyFrom, TypeOK, sentVars
<1>6. ASSUME NEW positive \in BOOLEAN,
             HandleWheelScale(positive) \/ HandleToolScale(positive)
      PROVE  TypeOK'
  BY <1>6 DEF HandleWheelScale, HandleToolScale, TypeOK, sentVars
<1>7. ASSUME PublishSelectedCommands PROVE TypeOK'
  <2>1. /\ {s \in Sources : WheelActive(s)} \in SUBSET Sources
        /\ {s \in Sources : ToolActive(s)} \in SUBSET Sources
    OBVIOUS
  <2>2. wheelSent' \in Command \cup {Silence} /\ toolSent' \in Command \cup {Silence}
    BY <1>7, <2>1, SelectedType DEF PublishSelectedCommands, TypeOK
  <2>3. /\ wheelSent' \in Twist \cup {ZeroTwist, Silence}
        /\ toolSent' \in Twist \cup {ZeroTwist, Silence}
    BY <2>2 DEF Command
  <2> QED
    BY <1>7, <2>3 DEF PublishSelectedCommands, TypeOK, teleopVars
<1>8. ASSUME Period PROVE TypeOK'
  <2>1. wheel' \in [Sources -> Held] /\ tool' \in [Sources -> Held]
    BY <1>8, AgedType DEF Period, TypeOK
  <2>2. mode' \in [seen : BOOLEAN, age : 0..AgeCap, oneStick : BOOLEAN]
    BY <1>8, OlderType DEF Period, TypeOK
  <2>3. steady' \in 0..AgeCap
    BY <1>8, OlderType, WindowsAssumption DEF Period, SteadyFrom, TypeOK
  <2> QED
    BY <1>8, <2>1, <2>2, <2>3 DEF Period, TypeOK
<1>9. CASE UNCHANGED sweepVars
  BY <1>9 DEF sweepVars, teleopVars, sentVars, TypeOK
<1> QED
  BY <1>1, <1>2, <1>3, <1>4, <1>5, <1>6, <1>7, <1>8, <1>9
     DEF Next, Handle, HandleMotionCommand, HandleWebTeleop

(* Every variable keeps its type, whatever the parameters of the node.     *)
THEOREM SweepingTypeCorrect == Spec => []TypeOK
  BY TypeInit, TypeKept, PTL DEF Spec

----------------------------------------------------------------------------
(* What the node holds. *)

(* Arithmetic of two ages that grow together below the cap. *)
LEMMA OlderOrder ==
    ASSUME NEW a \in 0..AgeCap, NEW b \in 0..AgeCap, NEW d \in Nat
    PROVE  /\ a <= b => Older(a) <= Older(b)
           /\ a <= d + b => Older(a) <= d + Older(b)
           /\ Older(a) < AgeCap => a < AgeCap
           /\ Older(a) > 0 \/ AgeCap = 0
  BY WindowsAssumption DEF Older

(* The initial state has the invariant. *)
LEMMA HeldInit == Init => HeldInv
<1>1. Init => KnownOrigin /\ StopHeld /\ LeaderLeft
  BY WindowsAssumption DEF Init, KnownOrigin, StopHeld, LeaderLeft, Unheard, ZeroTwist,
     Sources, WheelTopics, ToolTopics, OneStickActive
<1> QED
  BY <1>1, TypeInit DEF HeldInv

(* Every step of the node keeps the invariant. *)
LEMMA HeldKept == HeldInv /\ [Next]_sweepVars => HeldInv'
<1> SUFFICES ASSUME HeldInv, [Next]_sweepVars PROVE HeldInv'
  OBVIOUS
<1>0. TypeOK /\ TypeOK'
  BY TypeKept DEF HeldInv
<1> DEFINE Kept == KnownOrigin' /\ StopHeld' /\ LeaderLeft'
<1>1. ASSUME NEW moving \in BOOLEAN,
             HandleWheelJoystickCommand([topic |-> "joystick", moving |-> moving])
      PROVE  Kept
  <2> DEFINE c == [topic |-> "joystick", moving |-> moving]
             derived == ScaledTwist(BuildToolNavigationCommand(c), toolScale)
  <2>1. /\ (IF OneStickActive THEN ScaledTwist(c, wheelScale) ELSE c).topic = "joystick"
        /\ derived.topic = "joystick"
    <3>1. c \in Twist /\ c.topic = "joystick"
      BY DEF Twist, Topics
    <3>2. wheelScale \in BOOLEAN /\ toolScale \in BOOLEAN
      BY <1>0 DEF TypeOK
    <3>3. ScaledTwist(c, wheelScale).topic = "joystick"
      BY <3>1, <3>2, DerivedTwist
    <3> HIDE DEF c
    <3>4. /\ BuildToolNavigationCommand(c) \in Twist
          /\ BuildToolNavigationCommand(c).topic = "joystick"
      BY <3>1, DerivedTwist
    <3>5. derived.topic = "joystick"
      BY <3>2, <3>4, DerivedTwist
    <3> QED BY <3>1, <3>3, <3>5
  <2>2. /\ wheel'["joystick"].command.topic = "joystick"
        /\ \A s \in Sources \ {"joystick"} : wheel'[s] = wheel[s]
        /\ \A s \in Sources \ {"navigation"} : tool'[s] = tool[s]
        /\ mode' = mode /\ steady' = steady
        /\ \/ tool' = tool
           \/ /\ OneStickActive
              /\ tool'["navigation"].age = 0
              /\ tool'["navigation"].command.topic = "joystick"
    BY <1>1, <1>0, <2>1 DEF HandleWheelJoystickCommand, TypeOK, Sources, Received, teleopVars
  <2>3. KnownOrigin'
    BY <2>2 DEF HeldInv, KnownOrigin, Sources, WheelTopics, ToolTopics
  <2>4. StopHeld'
    BY <2>2 DEF HeldInv, StopHeld, Sources
  <2>5. LeaderLeft'
    <3>1. CASE tool' = tool
      BY <2>2, <3>1 DEF HeldInv, LeaderLeft, OneStickActive
    <3>2. CASE /\ OneStickActive /\ tool'["navigation"].age = 0
               /\ tool'["navigation"].command.topic = "joystick"
      BY <2>2, <3>2 DEF LeaderLeft, OneStickActive
    <3> QED
      BY <2>2, <3>1, <3>2
  <2> QED
    BY <2>3, <2>4, <2>5
<1>2. ASSUME NEW moving \in BOOLEAN,
             HandleWheelNavigationCommand([topic |-> "navigation", moving |-> moving])
      PROVE  Kept
  <2> DEFINE c == [topic |-> "navigation", moving |-> moving]
  <2>1. c.topic = "navigation" /\ BuildToolNavigationCommand(c).topic = "navigation"
    BY DerivedTwist DEF Twist, Topics
  <2>2. /\ wheel'["navigation"].command.topic = "navigation"
        /\ \A s \in Sources \ {"navigation"} : wheel'[s] = wheel[s]
        /\ \A s \in Sources \ {"navigation"} : tool'[s] = tool[s]
        /\ mode' = mode /\ steady' = steady
        /\ \/ tool' = tool
           \/ ~OneStickActive /\ tool'["navigation"].command.topic = "navigation"
    BY <1>2, <1>0, <2>1 DEF HandleWheelNavigationCommand, TypeOK, Sources, Received, teleopVars
  <2>3. KnownOrigin'
    BY <2>2 DEF HeldInv, KnownOrigin, Sources, WheelTopics, ToolTopics
  <2>4. StopHeld'
    BY <2>2 DEF HeldInv, StopHeld, Sources
  <2>5. LeaderLeft'
    BY <2>2 DEF HeldInv, LeaderLeft, OneStickActive
  <2> QED
    BY <2>3, <2>4, <2>5
<1>3. ASSUME NEW moving \in BOOLEAN,
             HandleToolJoystickCommand([topic |-> "tool_joystick", moving |-> moving])
      PROVE  Kept
  <2>1. /\ wheel' = wheel /\ mode' = mode /\ steady' = steady
        /\ \A s \in Sources \ {"joystick"} : tool'[s] = tool[s]
        /\ tool'["joystick"].command.topic = "tool_joystick"
    BY <1>3, <1>0 DEF HandleToolJoystickCommand, TypeOK, Sources, Received, teleopVars
  <2> QED
    BY <2>1 DEF HeldInv, KnownOrigin, StopHeld, LeaderLeft, OneStickActive, Sources,
       WheelTopics, ToolTopics
<1>4. ASSUME HandleSafetyStopCommand([topic |-> "safety_stop", moving |-> FALSE])
      PROVE  Kept
  <2> DEFINE stop == Received([topic |-> "safety_stop", moving |-> FALSE])
  <2>1. /\ stop.seen /\ stop.command.topic = "safety_stop" /\ ~stop.command.moving
    BY DEF Received
  <2> HIDE DEF stop
  <2>2. /\ wheel'["safety_stop"] = stop /\ tool'["safety_stop"] = stop
        /\ \A s \in Sources \ {"safety_stop"} : wheel'[s] = wheel[s] /\ tool'[s] = tool[s]
        /\ mode' = mode /\ steady' = steady
    BY <1>4, <1>0 DEF HandleSafetyStopCommand, TypeOK, Sources, teleopVars, stop
  <2>3. KnownOrigin'
    BY <2>1, <2>2 DEF HeldInv, KnownOrigin, Sources, WheelTopics, ToolTopics
  <2>4. StopHeld'
    BY <2>1, <2>2 DEF StopHeld
  <2>5. LeaderLeft'
    BY <2>2 DEF HeldInv, LeaderLeft, OneStickActive, Sources
  <2> QED
    BY <2>3, <2>4, <2>5
<1>5. ASSUME NEW oneStick \in BOOLEAN, HandleControlMode(oneStick)
      PROVE  Kept
  <2>1. /\ wheel' = wheel /\ tool' = tool
        /\ \/ steady' = 0
           \/ steady' = steady /\ (OneStickActive' <=> OneStickActive)
    BY <1>5 DEF HandleControlMode, SteadyFrom
  <2>2. tool["navigation"].age \in 0..AgeCap
    BY <1>0 DEF TypeOK, Held, Sources
  <2>3. LeaderLeft'
    BY <2>1, <2>2, WindowsAssumption DEF HeldInv, LeaderLeft
  <2> QED
    BY <2>1, <2>3 DEF HeldInv, KnownOrigin, StopHeld
<1>6. ASSUME NEW positive \in BOOLEAN,
             HandleWheelScale(positive) \/ HandleToolScale(positive)
      PROVE  Kept
  BY <1>6 DEF HandleWheelScale, HandleToolScale, HeldInv, KnownOrigin, StopHeld,
     LeaderLeft, OneStickActive
<1>7. ASSUME PublishSelectedCommands PROVE Kept
  BY <1>7 DEF PublishSelectedCommands, HeldInv, KnownOrigin, StopHeld, LeaderLeft,
     OneStickActive, teleopVars
<1>8. ASSUME Period PROVE Kept
  <2>1. \A s \in Sources :
           /\ wheel'[s].age = Older(wheel[s].age) /\ tool'[s].age = Older(tool[s].age)
           /\ wheel'[s].seen = wheel[s].seen /\ tool'[s].seen = tool[s].seen
           /\ wheel'[s].command = wheel[s].command /\ tool'[s].command = tool[s].command
    BY <1>8, <1>0, AgedType DEF Period, TypeOK
  <2>2. \/ steady' = 0
        \/ steady' = Older(steady) /\ (OneStickActive' <=> OneStickActive)
    BY <1>8 DEF Period, SteadyFrom
  <2>3. KnownOrigin'
    BY <2>1 DEF HeldInv, KnownOrigin
  <2>4. StopHeld'
    <3>1. Aged(wheel)["safety_stop"] = Aged(tool)["safety_stop"]
      BY DEF Aged, Sources, HeldInv, StopHeld
    <3>2. wheel["safety_stop"].age \in 0..AgeCap
      BY <1>0 DEF TypeOK, Held, Sources
    <3>3. wheel'["safety_stop"].age < AgeCap => wheel["safety_stop"].age < AgeCap
      BY <2>1, <3>2, OlderOrder DEF Sources
    <3> QED
      BY <1>8, <2>1, <3>1, <3>3 DEF Period, HeldInv, StopHeld, Sources
  <2>5. LeaderLeft'
    <3>1. steady \in 0..AgeCap /\ tool["navigation"].age \in 0..AgeCap
      BY <1>0 DEF TypeOK, Held, Sources
    <3>2. steady <= tool["navigation"].age => Older(steady) <= tool'["navigation"].age
      BY <2>1, <3>1, OlderOrder DEF Sources
    <3>3. tool'["navigation"].age >= 0
      BY <2>1, <3>1, OlderType DEF Sources
    <3>4. tool'["navigation"].command = tool["navigation"].command
      BY <2>1 DEF Sources
    <3> QED
      BY <2>2, <3>2, <3>3, <3>4 DEF HeldInv, LeaderLeft
  <2> QED
    BY <2>3, <2>4, <2>5
<1>9. ASSUME UNCHANGED sweepVars PROVE Kept
  BY <1>9 DEF sweepVars, teleopVars, HeldInv, KnownOrigin, StopHeld, LeaderLeft, OneStickActive
<1> QED
  BY <1>0, <1>1, <1>2, <1>3, <1>4, <1>5, <1>6, <1>7, <1>8, <1>9
     DEF Next, Handle, HandleMotionCommand, HandleWebTeleop, HeldInv

----------------------------------------------------------------------------
(* What the node publishes. *)

(* An output is the command of a fresh source that no fresh source         *)
(* outranks, or, without a fresh source, nothing that moves.               *)
LEMMA SelectedIsBest ==
    ASSUME NEW active \in SUBSET Sources, NEW state, NEW priority,
           NEW sent \in Selected(active, state, priority)
    PROVE  \/ active = {} /\ sent \in {ZeroTwist, Silence}
           \/ \E s \in active : /\ sent = state[s].command
                               /\ \A t \in active : priority[t] <= priority[s]
  BY DEF Selected, Best

(* A fresh stop outranks every other source.                               *)
LEMMA StopOutranks ==
    ASSUME NEW active \in SUBSET Sources, "safety_stop" \in active,
           NEW priority \in [Sources -> Int],
           \A s \in Sources \ {"safety_stop"} : priority[s] < priority["safety_stop"],
           NEW state, NEW sent \in Selected(active, state, priority)
    PROVE  sent = state["safety_stop"].command
<1>1. PICK s \in active : /\ sent = state[s].command
                          /\ \A t \in active : priority[t] <= priority[s]
  BY SelectedIsBest
<1>2. s = "safety_stop"
  BY <1>1 DEF Sources
<1> QED
  BY <1>1, <1>2

(* Stops hold in both outputs: the part of SafetyWins about one period.    *)
LEMMA StopWinsStep ==
    ASSUME SafetyOutranks, HeldInv, PublishSelectedCommands
    PROVE  SafetyWins'
<1> USE SourcesAssumption, WindowsAssumption
<1> DEFINE wheels == {s \in Sources : WheelActive(s)}
           tools == {s \in Sources : ToolActive(s)}
<1>1. /\ wheelSent' \in Selected(wheels, wheel, WheelPriority)
      /\ toolSent' \in Selected(tools, tool, ToolPriority)
      /\ wheel' = wheel /\ tool' = tool
  BY DEF PublishSelectedCommands
<1>2. WheelTimeout["safety_stop"] < AgeCap /\ ToolTimeout["safety_stop"] < AgeCap
  BY DEF Sources
<1>3. ASSUME wheel["safety_stop"].age \in 1..WheelTimeout["safety_stop"]
      PROVE  ~wheelSent'.moving
  <2>1. "safety_stop" \in wheels
    BY <1>2, <1>3 DEF WheelActive, IsActive, HeldInv, StopHeld, SafetyOutranks, Sources
  <2>2. wheelSent' = wheel["safety_stop"].command
    BY <1>1, <2>1, StopOutranks DEF SafetyOutranks
  <2> QED
    BY <2>2 DEF HeldInv, StopHeld
<1>4. ASSUME tool["safety_stop"].age \in 1..ToolTimeout["safety_stop"]
      PROVE  ~toolSent'.moving
  <2>1. "safety_stop" \in tools
    BY <1>2, <1>4 DEF ToolActive, IsActive, HeldInv, StopHeld, SafetyOutranks, Sources
  <2>2. toolSent' = tool["safety_stop"].command
    BY <1>1, <2>1, StopOutranks DEF SafetyOutranks
  <2> QED
    BY <2>2 DEF HeldInv, StopHeld
<1> QED
  BY <1>1, <1>3, <1>4 DEF SafetyWins

(* A handler changes no output; the stop and the mode that it may store    *)
(* are new.                                                                *)
LEMMA HandleEffect ==
    ASSUME TypeOK, Handle
    PROVE  /\ wheelSent' = wheelSent /\ toolSent' = toolSent
           /\ wheel'["safety_stop"] = wheel["safety_stop"] \/ wheel'["safety_stop"].age = 0
           /\ tool'["safety_stop"] = tool["safety_stop"] \/ tool'["safety_stop"].age = 0
           /\ mode' = mode \/ mode'.age = 0
           /\ \/ steady' = 0
              \/ steady' = steady /\ (OneStickActive' <=> OneStickActive)
<1> DEFINE Effect == /\ wheelSent' = wheelSent /\ toolSent' = toolSent
                     /\ \/ wheel'["safety_stop"] = wheel["safety_stop"]
                        \/ wheel'["safety_stop"].age = 0
                     /\ \/ tool'["safety_stop"] = tool["safety_stop"]
                        \/ tool'["safety_stop"].age = 0
                     /\ mode' = mode \/ mode'.age = 0
                     /\ \/ steady' = 0
                        \/ steady' = steady /\ (OneStickActive' <=> OneStickActive)
<1> USE DEF TypeOK, sentVars, teleopVars, Sources, OneStickActive
<1>1. ASSUME NEW command, HandleWheelJoystickCommand(command) PROVE Effect
  BY <1>1 DEF HandleWheelJoystickCommand
<1>2. ASSUME NEW command, HandleWheelNavigationCommand(command) PROVE Effect
  BY <1>2 DEF HandleWheelNavigationCommand
<1>3. ASSUME NEW command, HandleToolJoystickCommand(command) PROVE Effect
  BY <1>3 DEF HandleToolJoystickCommand
<1>4. ASSUME NEW command, HandleSafetyStopCommand(command) PROVE Effect
  BY <1>4 DEF HandleSafetyStopCommand, Received
<1>5. ASSUME NEW oneStick, HandleControlMode(oneStick) PROVE Effect
  BY <1>5 DEF HandleControlMode, SteadyFrom
<1>6. ASSUME NEW positive, HandleWheelScale(positive) \/ HandleToolScale(positive)
      PROVE  Effect
  BY <1>6 DEF HandleWheelScale, HandleToolScale
<1> HIDE DEF Effect
<1>7. Effect
  BY <1>1, <1>2, <1>3, <1>4, <1>5, <1>6 DEF Handle, HandleMotionCommand, HandleWebTeleop
<1> QED
  BY <1>7 DEF Effect

(* When the stop outranks the other sources, nothing moves wheels or tools *)
(* while it is fresh: for every set of timeouts, in every teleop mode.     *)
THEOREM FreshStopWins ==
    ASSUME SafetyOutranks
    PROVE  Spec => []SafetyWins
<1>1. Init => SafetyWins
  BY DEF Init, SafetyWins, Silence
<1>2. HeldInv /\ SafetyWins /\ [Next]_sweepVars => SafetyWins'
  <2> SUFFICES ASSUME HeldInv, SafetyWins, [Next]_sweepVars PROVE SafetyWins'
    OBVIOUS
  <2>1. CASE Handle
    <3>1. TypeOK
      BY DEF HeldInv
    <3> QED
      BY <2>1, <3>1, HandleEffect DEF SafetyWins
  <2>2. CASE PublishSelectedCommands
    BY <2>2, StopWinsStep
  <2>3. CASE Period
    BY <2>3 DEF Period, SafetyWins, Silence
  <2>4. CASE UNCHANGED sweepVars
    BY <2>4 DEF sweepVars, sentVars, SafetyWins
  <2> QED
    BY <2>1, <2>2, <2>3, <2>4 DEF Next
<1> QED
  BY <1>1, <1>2, HeldInit, HeldKept, PTL DEF Spec

(* The tools get a command of the tool joystick only out of one-stick      *)
(* mode, and one of a leader only while it leads, up to one window.        *)
LEMMA LeaderStep ==
    ASSUME HeldInv, PublishSelectedCommands
    PROVE  OneStickSilencesTools' /\ OneLeader'
<1> USE SourcesAssumption, WindowsAssumption
<1> DEFINE tools == {s \in Sources : ToolActive(s)}
<1>1. /\ toolSent' \in Selected(tools, tool, ToolPriority)
      /\ mode' = mode /\ steady' = steady /\ (OneStickActive' <=> OneStickActive)
  BY DEF PublishSelectedCommands, teleopVars, OneStickActive
<1>2. \/ toolSent' \in {ZeroTwist, Silence}
      \/ \E s \in Sources : ToolActive(s) /\ toolSent' = tool[s].command
  <2>1. tools \in SUBSET Sources
    OBVIOUS
  <2> HIDE DEF tools
  <2>2. \/ tools = {} /\ toolSent' \in {ZeroTwist, Silence}
        \/ \E s \in tools : /\ toolSent' = tool[s].command
                           /\ \A t \in tools : ToolPriority[t] <= ToolPriority[s]
    BY <1>1, <2>1, SelectedIsBest
  <2> QED
    BY <2>2 DEF tools
<1>3. CASE toolSent' \in {ZeroTwist, Silence}
  BY <1>3 DEF ZeroTwist, Silence, OneStickSilencesTools, OneLeader
<1>4. ASSUME NEW s \in Sources, ToolActive(s), toolSent' = tool[s].command
      PROVE  OneStickSilencesTools' /\ OneLeader'
  <2>1. toolSent'.topic \in ToolTopics[s]
    BY <1>4 DEF HeldInv, KnownOrigin
  <2>2. CASE s = "safety_stop"
    BY <2>1, <2>2 DEF ToolTopics, OneStickSilencesTools, OneLeader
  <2>3. CASE s = "joystick"
    BY <1>1, <1>4, <2>1, <2>3 DEF ToolTopics, ToolActive, OneStickSilencesTools, OneLeader
  <2>4. CASE s = "navigation"
    <3>1. OneStickSilencesTools'
      BY <2>1, <2>4 DEF ToolTopics, OneStickSilencesTools
    <3>2. tool["navigation"].age <= ToolTimeout["navigation"]
      BY <1>4, <2>4 DEF ToolActive, IsActive
    <3>3. /\ tool["navigation"].age \in Nat /\ steady \in Nat
          /\ ToolTimeout["navigation"] \in Nat
      BY DEF HeldInv, TypeOK, Held, Sources
    <3>4. OneLeader'
      BY <1>1, <1>4, <2>4, <3>2, <3>3 DEF OneLeader, HeldInv, LeaderLeft
    <3> QED
      BY <3>1, <3>4
  <2> QED
    BY <2>2, <2>3, <2>4 DEF Sources
<1> QED
  BY <1>2, <1>3, <1>4

(* The tool joystick is silenced in one-stick mode and the brushes follow  *)
(* one leader, whatever the timeouts, priorities, gains and sources.       *)
THEOREM BrushesFollowOneLeader == Spec => [](OneStickSilencesTools /\ OneLeader)
<1> DEFINE Led == OneStickSilencesTools /\ OneLeader
<1>1. Init => Led
  BY DEF Init, OneStickSilencesTools, OneLeader, Silence
<1>2. HeldInv /\ Led /\ [Next]_sweepVars => Led'
  <2> SUFFICES ASSUME HeldInv, Led, [Next]_sweepVars PROVE Led'
    OBVIOUS
  <2>1. CASE Handle
    <3>1. TypeOK /\ ToolTimeout["navigation"] \in Nat
      BY WindowsAssumption DEF HeldInv, Sources
    <3>2. /\ toolSent' = toolSent
          /\ mode' = mode \/ mode'.age = 0
          /\ \/ steady' = 0
             \/ steady' = steady /\ (OneStickActive' <=> OneStickActive)
      BY <2>1, <3>1, HandleEffect
    <3>3. OneStickSilencesTools'
      BY <3>2 DEF OneStickSilencesTools, OneStickActive
    <3>4. OneLeader'
      BY <3>1, <3>2 DEF OneLeader
    <3> QED
      BY <3>3, <3>4
  <2>2. CASE PublishSelectedCommands
    BY <2>2, LeaderStep
  <2>3. CASE Period
    BY <2>3 DEF Period, OneStickSilencesTools, OneLeader, Silence
  <2>4. CASE UNCHANGED sweepVars
    BY <2>4 DEF sweepVars, sentVars, teleopVars, OneStickSilencesTools, OneLeader, OneStickActive
  <2> QED
    BY <2>1, <2>2, <2>3, <2>4 DEF Next
<1> QED
  BY <1>1, <1>2, HeldInit, HeldKept, PTL DEF Spec

(* The tool joystick has no say in one-stick mode.                         *)
THEOREM ToolJoystickSilenced == Spec => []OneStickSilencesTools
  BY BrushesFollowOneLeader, PTL

(* One output is a stop if and only if the other is.                       *)
LEMMA StopTogetherStep ==
    ASSUME SafetyOutranks, WheelTimeout["safety_stop"] = ToolTimeout["safety_stop"],
           HeldInv, PublishSelectedCommands
    PROVE  StoppedTogether'
<1> USE SourcesAssumption, WindowsAssumption
<1> DEFINE wheels == {s \in Sources : WheelActive(s)}
           tools == {s \in Sources : ToolActive(s)}
<1>1. /\ wheelSent' \in Selected(wheels, wheel, WheelPriority)
      /\ toolSent' \in Selected(tools, tool, ToolPriority)
      /\ wheels \in SUBSET Sources /\ tools \in SUBSET Sources
  BY DEF PublishSelectedCommands
<1>2. "safety_stop" \in wheels <=> "safety_stop" \in tools
  BY DEF WheelActive, ToolActive, IsActive, HeldInv, StopHeld, SafetyOutranks, Sources
<1>3. ASSUME "safety_stop" \in wheels, "safety_stop" \in tools
      PROVE  wheelSent'.topic = "safety_stop" /\ toolSent'.topic = "safety_stop"
  <2>1. /\ wheelSent' = wheel["safety_stop"].command
        /\ toolSent' = tool["safety_stop"].command
    BY <1>1, <1>3, StopOutranks DEF SafetyOutranks
  <2>2. wheel["safety_stop"].age <= WheelTimeout["safety_stop"]
    BY <1>3 DEF WheelActive, IsActive
  <2>3. wheel["safety_stop"].age < AgeCap
    <3>1. /\ WheelTimeout["safety_stop"] \in Nat /\ WheelTimeout["safety_stop"] < AgeCap
          /\ wheel["safety_stop"].age \in Nat
      BY DEF Sources, HeldInv, TypeOK, Held
    <3> QED
      BY <2>2, <3>1
  <2> QED
    BY <2>1, <2>3 DEF HeldInv, StopHeld
<1>4. ASSUME "safety_stop" \notin wheels PROVE wheelSent'.topic # "safety_stop"
  <2>1. ASSUME NEW s \in wheels, wheelSent' = wheel[s].command
        PROVE  wheelSent'.topic # "safety_stop"
    BY <1>4, <2>1 DEF HeldInv, KnownOrigin, WheelTopics, Sources
  <2> HIDE DEF wheels
  <2>2. wheelSent' \in {ZeroTwist, Silence} \/ \E s \in wheels : wheelSent' = wheel[s].command
    BY <1>1, SelectedIsBest
  <2> QED
    BY <2>1, <2>2 DEF ZeroTwist, Silence
<1>5. ASSUME "safety_stop" \notin tools PROVE toolSent'.topic # "safety_stop"
  <2>1. ASSUME NEW s \in tools, toolSent' = tool[s].command
        PROVE  toolSent'.topic # "safety_stop"
    BY <1>5, <2>1 DEF HeldInv, KnownOrigin, ToolTopics, Sources
  <2> HIDE DEF tools
  <2>2. toolSent' \in {ZeroTwist, Silence} \/ \E s \in tools : toolSent' = tool[s].command
    BY <1>1, SelectedIsBest
  <2> QED
    BY <2>1, <2>2 DEF ZeroTwist, Silence
<1> HIDE DEF wheels, tools
<1> QED
  BY <1>2, <1>3, <1>4, <1>5 DEF StoppedTogether

(* A stop that outranks the other sources, with equal windows, holds the   *)
(* wheels if and only if it holds the tools, in every teleop mode.         *)
THEOREM StopsHoldTogether ==
    ASSUME SafetyOutranks, WheelTimeout["safety_stop"] = ToolTimeout["safety_stop"]
    PROVE  Spec => []StoppedTogether
<1>1. Init => StoppedTogether
  BY DEF Init, StoppedTogether, Silence
<1>2. HeldInv /\ StoppedTogether /\ [Next]_sweepVars => StoppedTogether'
  <2> SUFFICES ASSUME HeldInv, StoppedTogether, [Next]_sweepVars PROVE StoppedTogether'
    OBVIOUS
  <2>1. CASE Handle
    BY <2>1, HandleEffect DEF HeldInv, StoppedTogether
  <2>2. CASE PublishSelectedCommands
    BY <2>2, StopTogetherStep
  <2>3. CASE Period
    BY <2>3 DEF Period, StoppedTogether, Silence
  <2>4. CASE UNCHANGED sweepVars
    BY <2>4 DEF sweepVars, sentVars, StoppedTogether
  <2> QED
    BY <2>1, <2>2, <2>3, <2>4 DEF Next
<1> QED
  BY <1>1, <1>2, HeldInit, HeldKept, PTL DEF Spec

=============================================================================
