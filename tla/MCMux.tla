------------------------------- MODULE MCMux --------------------------------
(* MuxService with the devices of the robot: the camera board on channel   *)
(* 0, the card reader on 1 and the turntable on 2.  Three ids are enough   *)
(* for three open transfers, and make the counter wrap all the time.       *)
EXTENDS MuxService
=============================================================================
