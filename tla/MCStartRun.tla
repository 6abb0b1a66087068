----------------------------- MODULE MCStartRun -----------------------------
(* StartRun with short queues, so that repeated offers fill one of them.   *)
EXTENDS StartRun

Set(k, l, m) == [key |-> k, blue |-> l, backup |-> m]

\* Each run the user may choose, with KEY1 down; with KEY1 up, the formal red one.
MCSettings == {Released, Set(TRUE, FALSE, FALSE), Set(TRUE, FALSE, TRUE),
               Set(TRUE, TRUE, FALSE), Set(TRUE, TRUE, TRUE)}

(***************************************************************************)
(* A robot that rests does not look at its panel and its gate again: no    *)
(* step out of such a state depends on them, and it is never left.  TLC    *)
(* takes such states for one another.                                      *)
(***************************************************************************)
View == IF state \in RestStates
        THEN <<ctxVars, evtQ, flags, loopVars, query = "asked", side, runMode,
               chassisVars>>
        ELSE vars
=============================================================================
