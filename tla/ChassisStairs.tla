--------------------------- MODULE ChassisStairs ---------------------------
(***************************************************************************)
(* The chassis task during the staircase (app_main.c, app_stairs.c): drive *)
(* to the first step, then sweep three segments sideways, announcing each  *)
(* and waiting for CAM_READY, pausing and resuming on command.             *)
(***************************************************************************)
EXTENDS MissionLink

CONSTANTS
    EndHighN,      \* ST_END_HIGH_N, samples that confirm the line end
    SensorFaults   \* may a sensor, the pose or the route fail?

ASSUME EndHighAssumption == EndHighN \in Nat \ {0}
ASSUME SensorAssumption == SensorFaults \in BOOLEAN

VARIABLES
    cpc,        \* where the chassis task is
    leg,        \* the loop variable i of stairs_sweep, 0 before the loop
    driving,    \* a non-zero velocity is commanded
    past,       \* the robot is physically beyond the end of the segment
    moving, paused, camReady, highCnt,  \* stair_ctx_t
    sweepId,    \* stair_ctx_t.req_id
    woken       \* the last poll was ended by a command, not by its timeout

sweepVars == <<leg, past, moving, paused, camReady, highCnt, sweepId, woken>>
chassisVars == <<cpc, driving, sweepVars>>

Segments == <<"STAIR_LOW", "STAIR_HIGH", "STAIR_MID">>
PollStages == {"ready", "settle", "scan"}
ChassisStages ==
    {"await", "route", "enter", "repost", "body", "gone", "next"} \cup PollStages

ChassisTypeOK ==
    /\ cpc \in ChassisStages
    /\ leg \in 0..3
    /\ highCnt \in 0..EndHighN
    /\ sweepId \in Nat
    /\ {driving, past, moving, paused, camReady, woken} \subseteq BOOLEAN

ChassisInit ==
    /\ cpc = "await" /\ leg = 0 /\ highCnt = 0 /\ sweepId = 0
    /\ driving = FALSE /\ past = FALSE /\ moving = FALSE
    /\ paused = FALSE /\ camReady = FALSE /\ woken = FALSE

-----------------------------------------------------------------------------
\* Mutant: STOP is confirmed without stopping.
cmd_default_no_park(c) ==
    IF c.type = "STOP"
    THEN link_post("STOPPED", c.id, TRUE) /\ UNCHANGED driving
    ELSE UNCHANGED <<driving, evtQ, flags>>

\* cmd_default: STOP parks the base and is confirmed, the rest is dropped.
cmd_default(c) ==
    IF c.type = "STOP"
    THEN driving' = FALSE /\ link_post("STOPPED", c.id, TRUE)
    ELSE UNCHANGED <<driving, evtQ, flags>>

\* link_wait(GO_STAIRS), then route_go(ROUTE_STAIRS)
AwaitGo ==
    /\ cpc = "await" /\ TakeCommand
    /\ IF NextCommand.type = "GO_STAIRS"
       THEN /\ cpc' = "route" /\ driving' = TRUE
            /\ sweepId' = NextCommand.id
            /\ UNCHANGED <<evtQ, flags>>
       ELSE cmd_default(NextCommand) /\ UNCHANGED <<cpc, sweepId>>
    /\ UNCHANGED <<leg, past, moving, paused, camReady, highCnt, woken>>

\* route_go reads no command; the sweep follows whatever it reports.
RouteDone ==
    /\ cpc = "route"
    /\ cpc' = "enter" /\ driving' = FALSE
    /\ \E ok \in {TRUE} \cup {~SensorFaults} :
         link_post("STAIRS_READY", sweepId, ok)
    /\ UNCHANGED <<cmdQ, sweepVars>>

\* The head of the segment loop: stop, announce the segment.
EnterLayer ==
    /\ cpc = "enter"
    /\ leg' = leg + 1
    /\ highCnt' = 0 /\ past' = FALSE /\ camReady' = FALSE
    /\ driving' = (driving /\ ~moving)
    /\ link_post(Segments[leg + 1], sweepId, TRUE)
    /\ cpc' = "ready"
    /\ UNCHANGED <<cmdQ, moving, paused, sweepId, woken>>

\* Where a poll loop goes on after the hook consumed a command.
PollAgain ==
    /\ cpc' = IF cpc = "scan" THEN "body" ELSE cpc
    /\ UNCHANGED moving

(***************************************************************************)
(* stair_hook, for the command at the head of the queue.  STOP also ends   *)
(* the sweep: every loop tests the latch right after the poll.             *)
(***************************************************************************)
HookStop ==
    /\ NextCommand.type = "STOP"
    /\ cmd_default(NextCommand)
    /\ cpc' = "gone"
    /\ UNCHANGED <<moving, paused, camReady, highCnt>>

\* CAM_READY releases the segment; later ones settle before they move.
HookCamReady ==
    /\ NextCommand.type = "CAM_READY"
    /\ camReady' = TRUE
    /\ IF cpc = "ready"
       THEN cpc' = (IF moving THEN "settle" ELSE "scan") /\ moving' = TRUE
       ELSE PollAgain
    /\ UNCHANGED <<driving, paused, highCnt, evtQ, flags>>

\* Mutant: the pause is confirmed while the base rolls on.
HookStairStopRolls ==
    /\ NextCommand.type = "STAIR_STOP"
    /\ highCnt' = 0 /\ paused' = TRUE
    /\ link_post("STAIR_PAUSE", sweepId, TRUE)
    /\ PollAgain
    /\ UNCHANGED <<driving, camReady>>

HookStairStop ==
    /\ NextCommand.type = "STAIR_STOP"
    /\ highCnt' = 0 /\ paused' = TRUE
    /\ driving' = (driving /\ (~moving \/ paused))
    /\ link_post("STAIR_PAUSE", sweepId, TRUE)
    /\ PollAgain
    /\ UNCHANGED camReady

\* A resume that finds the segment unconfirmed announces it once more.
HookResume ==
    /\ NextCommand.type = "STAIR_RESUME" /\ paused
    /\ paused' = FALSE
    /\ link_post("STAIR_RESUME", sweepId, TRUE)
    /\ IF camReady THEN PollAgain ELSE cpc' = "repost" /\ UNCHANGED moving
    /\ UNCHANGED <<driving, camReady, highCnt>>

HookOther ==
    /\ \/ NextCommand.type \notin {"STOP", "CAM_READY", "STAIR_STOP", "STAIR_RESUME"}
       \/ NextCommand.type = "STAIR_RESUME" /\ ~paused
    /\ PollAgain
    /\ UNCHANGED <<driving, paused, camReady, highCnt, evtQ, flags>>

StairHook ==
    /\ cpc \in PollStages /\ TakeCommand
    /\ \/ HookStop \/ HookCamReady \/ HookStairStop \/ HookResume \/ HookOther
    /\ woken' = TRUE
    /\ UNCHANGED <<leg, past, sweepId>>

\* Only the loop that waits for CAM_READY polls with camReady still clear.
Repost ==
    /\ cpc = "repost"
    /\ link_post(Segments[leg], sweepId, TRUE)
    /\ cpc' = "ready"
    /\ UNCHANGED <<cmdQ, driving, sweepVars>>

SettleOver ==
    /\ cpc = "settle"
    /\ cpc' = "scan"
    /\ UNCHANGED <<linkVars, driving, sweepVars>>

\* The 10 ms poll of the scan loop ends without a command.
ScanTick ==
    /\ cpc = "scan" /\ cmdQ = <<>>
    /\ cpc' = "body" /\ woken' = FALSE
    /\ UNCHANGED <<linkVars, driving, leg, past, moving, paused, camReady,
                   highCnt, sweepId>>

-----------------------------------------------------------------------------
(* The rest of one pass of the scan loop.                                  *)

Measuring == cpc = "body" /\ ~paused

\* Paused, or woken too early for another sample of the line end.
SkipPass ==
    /\ cpc = "body" /\ (paused \/ (leg = 3 /\ woken))
    /\ cpc' = "scan"
    /\ UNCHANGED <<linkVars, driving, sweepVars>>

\* layer_done or stair_drive fails: park and leave, without any event.
SweepError ==
    /\ Measuring /\ SensorFaults
    /\ driving' = FALSE
    /\ cpc' = "gone"
    /\ UNCHANGED <<linkVars, sweepVars>>

\* stair_drive, unless a command ended the 10 ms period early.
stair_drive ==
    /\ driving' = TRUE \/ (woken /\ UNCHANGED driving)
    /\ cpc' = "scan"
    /\ UNCHANGED <<evtQ, flags>>

finish_sweep ==
    /\ driving' = FALSE
    /\ link_post("STAIRS_FINISHED", sweepId, TRUE)
    /\ cpc' = "gone"

\* END_BY_Y: the odometer has reached the end of the segment, or not yet.
DriveLayer ==
    /\ Measuring /\ leg < 3
    /\ IF past THEN cpc' = "enter" /\ UNCHANGED <<driving, evtQ, flags>>
               ELSE stair_drive
    /\ UNCHANGED <<cmdQ, sweepVars>>

\* END_BY_LINE: EndHighN high samples in a row; a low one starts over.
DriveLastLayer ==
    /\ Measuring /\ leg = 3
    /\ \E high \in {TRUE, past} :
         highCnt' = IF ~high THEN 0
                    ELSE IF highCnt < EndHighN THEN highCnt + 1 ELSE highCnt
    /\ IF highCnt' >= EndHighN THEN finish_sweep ELSE stair_drive
    /\ UNCHANGED <<cmdQ, leg, past, moving, paused, camReady, sweepId, woken>>

\* link_wait(GO_SMALL_DISC); the staircase ends when it arrives.
AwaitNext ==
    /\ cpc = "gone" /\ TakeCommand
    /\ IF NextCommand.type = "GO_SMALL_DISC"
       THEN cpc' = "next" /\ UNCHANGED <<driving, evtQ, flags>>
       ELSE cmd_default(NextCommand) /\ UNCHANGED cpc
    /\ UNCHANGED sweepVars

ChassisNext ==
    \/ AwaitGo \/ RouteDone \/ EnterLayer \/ StairHook \/ Repost
    \/ SettleOver \/ ScanTick \/ SkipPass \/ SweepError
    \/ DriveLayer \/ DriveLastLayer \/ AwaitNext

\* The world: a base that keeps driving gets past the end of its segment.
Advance ==
    /\ driving /\ cpc \in {"scan", "body"} /\ ~past
    /\ past' = TRUE
    /\ UNCHANGED <<linkVars, cpc, driving, leg, moving, paused, camReady,
                   highCnt, sweepId, woken>>
=============================================================================
