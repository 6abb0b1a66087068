--------------------------- MODULE MCPlatformRun ---------------------------
(* Two grasps for one ball, so that the stage can end with its first ball  *)
(* or with its last attempt; every ball has a cell of its own, so that a   *)
(* record that names the wrong ball is seen.                               *)
EXTENDS PlatformRun

MCCards == << <<1, 1>>, <<2, 3>> >>

(***************************************************************************)
(* A robot that rests outside a store never looks at cards, slots and      *)
(* records again, unless its arm still holds a ball to drop (group 12): no *)
(* other step out of such a state depends on them, it is never left, and   *)
(* PlatformEnds is already decided.  TLC takes such states for one         *)
(* another, but for the motor, which TurnClearOfArm looks at.              *)
(***************************************************************************)
View == IF state \in RestStates /\ arm # 12 /\ step = "off"
        THEN <<ctxVars, evtQ, flags, loopVars, chassisVars, motor>> ELSE vars
=============================================================================
