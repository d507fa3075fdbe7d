----------------------------- MODULE StopLatch -----------------------------
(***************************************************************************)
(* What the safety controller promises to the nodes that ask it to stop    *)
(* the robot, and to the operator: a stop that reaches an armed controller *)
(* ends in a latched stop, and nothing but the operator releases a latch.  *)
(*                                                                         *)
(* The abstract state does not know which stops were asked for, how they   *)
(* travel, or what the controller does to stop the robot.                  *)
(***************************************************************************)

VARIABLES
    armed,    \* the controller answers stops
    stopped,  \* the stop is latched
    pending   \* some stop was asked for and has not been answered yet

vars == <<armed, stopped, pending>>

Init ==
    /\ armed \in BOOLEAN
    /\ stopped = FALSE
    /\ pending = FALSE

(* A node asks for a stop. *)
Request ==
    /\ pending' = TRUE
    /\ UNCHANGED <<armed, stopped>>

(* The controller takes a stop that waits; an armed controller latches. *)
Answer ==
    /\ pending
    /\ pending' \in BOOLEAN
    /\ stopped' = (stopped \/ armed)
    /\ UNCHANGED armed

(* The controller itself detects a reason to stop and tells everyone. *)
Detect ==
    /\ armed
    /\ stopped' = TRUE
    /\ pending' = TRUE
    /\ UNCHANGED armed

(* The operator releases the latch; what waits is still answered later. *)
Release ==
    /\ stopped' = FALSE
    /\ UNCHANGED <<armed, pending>>

(* The operator arms or disarms the controller. *)
Arm(on) ==
    /\ armed' = on
    /\ stopped' = (stopped /\ on)
    /\ UNCHANGED pending

Next ==
    \/ Request
    \/ Answer
    \/ Detect
    \/ Release
    \/ \E on \in BOOLEAN : Arm(on)

(* The promise to act: a stop that keeps waiting at an armed controller    *)
(* which has not latched yet is taken.  An operator who disarms it again   *)
(* and again may outrun it.                                                *)
Latch == armed /\ ~stopped /\ Answer

Spec == Init /\ [][Next]_vars /\ WF_vars(Latch)

----------------------------------------------------------------------------

(* The three flags are truth values. *)
TypeOK ==
    /\ armed \in BOOLEAN
    /\ stopped \in BOOLEAN
    /\ pending \in BOOLEAN

============================================================================
