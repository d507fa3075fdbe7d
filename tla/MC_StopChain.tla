---------------------------- MODULE MC_StopChain ----------------------------
(* Values for the configurations of StopChain.  A stop, its reset and all  *)
(* commanders at once are too many states: the variable scenario says what *)
(* a behavior is about.                                                    *)
EXTENDS StopChain

CONSTANT Scenarios

VARIABLE scenario

OnePeer == {"peer"}
OneElapsed == {"watchdog"}
Nobody == {}
Both == {"joystick", "navigation"}
StopsOfNavigation == {"navigation"}
AllScenarios == {"navigation", "joystick", "commands"}

(* In this behavior s says nothing, or asks for motion only. *)
Unheard(s) == ~wheel'[s].seen /\ ~tool'[s].seen
Moving(s) ==
    /\ wheel'[s].seen => wheel'[s].command.moving
    /\ tool'[s].seen => tool'[s].command.moving

(* Without sockets and monitors the stages of the publish timer up to the  *)
(* last touch nothing that others see: they are run in one go.             *)
InOneGo == pc \in {"button", "odrive", "steadydrive", "heartbeat"} => pc' # pc

(* The navigation against stops and their resets; the joystick against     *)
(* stops that nobody resets; joystick and navigation without stops.        *)
InScenario ==
    \/ /\ scenario = "navigation"
       /\ Moving("navigation") /\ Unheard("joystick")
       /\ lifecycle' = "active"
    \/ /\ scenario = "joystick"
       /\ Moving("joystick") /\ Unheard("navigation")
       /\ enabled' /\ client' = 0
    \/ /\ scenario = "commands"
       /\ ~tool'["joystick"].seen
       /\ ~enabled' /\ stopQueue' = <<>> /\ client' = 0

ScenarioInit ==
    /\ ChainInit
    /\ scenario \in Scenarios
    /\ enabled <=> scenario # "commands"

ScenarioNext == ChainNext /\ InOneGo /\ InScenario /\ UNCHANGED scenario

ScenarioSpec == ScenarioInit /\ [][ScenarioNext]_<<chainVars, scenario>>
=============================================================================
