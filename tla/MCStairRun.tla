----------------------------- MODULE MCStairRun -----------------------------
(* StairRun on the scale of the code: two queues of eight, two balls.  The *)
(* ids start just below 2^16 - 1, so that a stage crosses the wrap to 1.   *)
EXTENDS StairRunInv
=============================================================================
