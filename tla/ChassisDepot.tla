---------------------------- MODULE ChassisDepot ----------------------------
(***************************************************************************)
(* The chassis task from GO_DEPOT_1 to the end of the run (app_main.c):    *)
(* drive to the depot, find the end of its line, shuttle between the four  *)
(* stations on command, drive home.                                        *)
(***************************************************************************)
EXTENDS MissionLink

CONSTANT SensorFaults   \* may a sensor, the pose or the route fail?

ASSUME SensorAssumption == SensorFaults \in BOOLEAN

VARIABLES
    cpc,       \* where the chassis task is
    driving,   \* a non-zero velocity is commanded
    base,      \* the station the base stands at, 0 if at none
    goal,      \* the station of the command in hand
    reqId      \* its request id

chassisVars == <<cpc, driving, base, goal, reqId>>

Stations == 1..4
GoDepot == <<"GO_DEPOT_1", "GO_DEPOT_2", "GO_DEPOT_3", "GO_DEPOT_4">>
DepotReady == <<"DEPOT_1_READY", "DEPOT_2_READY", "DEPOT_3_READY", "DEPOT_4_READY">>
ShiftCommands == {GoDepot[n] : n \in Stations}

ChassisTypeOK ==
    /\ cpc \in {"await", "route", "locate", "lost", "depot", "shift", "missed",
                "home", "parked", "end"}
    /\ driving \in BOOLEAN
    /\ base \in {0} \cup Stations /\ goal \in Stations
    /\ reqId \in Nat

ChassisInit ==
    /\ cpc = "await" /\ driving = FALSE
    /\ base = 0 /\ goal = 1 /\ reqId = 0

-----------------------------------------------------------------------------
\* Mutant: STOP is confirmed without stopping.
cmd_default_no_park(c) ==
    IF c.type = "STOP"
    THEN link_post("STOPPED", c.id, TRUE) /\ UNCHANGED driving
    ELSE UNCHANGED <<driving, evtQ, flags>>

\* cmd_default: STOP parks the base and is confirmed, the rest is dropped.
cmd_default(c) ==
    IF c.type = "STOP"
    THEN driving' = FALSE /\ link_post("STOPPED", c.id, TRUE)
    ELSE UNCHANGED <<driving, evtQ, flags>>

drive_to(n, id, stage) ==
    /\ cpc' = stage /\ driving' = TRUE
    /\ base' = 0 /\ goal' = n /\ reqId' = id
    /\ UNCHANGED <<evtQ, flags>>

\* link_wait(GO_DEPOT_1), then route_go(ROUTE_DEPOT)
AwaitDepot ==
    /\ cpc = "await" /\ TakeCommand
    /\ IF NextCommand.type = "GO_DEPOT_1"
       THEN drive_to(1, NextCommand.id, "route")
       ELSE cmd_default(NextCommand) /\ UNCHANGED <<cpc, base, goal, reqId>>

\* route_go reads no command.  A failed route is reported, and then the base
\* goes home without being asked.
RouteDone ==
    /\ cpc = "route"
    /\ \/ cpc' = "locate" /\ driving' = FALSE /\ UNCHANGED <<evtQ, flags>>
       \/ /\ SensorFaults
          /\ cpc' = "home" /\ driving' = TRUE
          /\ link_post("DEPOT_1_READY", reqId, FALSE)
    /\ UNCHANGED <<cmdQ, base, goal, reqId>>

\* depot_locate drives back only when the sensor is still over the line.
LocateMoves ==
    /\ cpc = "locate" /\ ~driving
    /\ driving' = TRUE
    /\ UNCHANGED <<linkVars, cpc, base, goal, reqId>>

\* A STOP while locating or shifting (disc_loc_wait) is answered at once; the
\* motion then counts as failed.
StopInMotion ==
    /\ cpc \in {"locate", "shift"} /\ TakeCommand
    /\ cmd_default(NextCommand)
    /\ cpc' = IF NextCommand.type # "STOP" THEN cpc
              ELSE IF cpc = "locate" THEN "lost" ELSE "missed"
    /\ UNCHANGED <<base, goal, reqId>>

\* Mutant: the answer is given before the base stands.
arrive_rolling(n, ok, stage) ==
    /\ cpc' = stage
    /\ base' = IF ok THEN n ELSE base
    /\ link_post(DepotReady[n], reqId, ok)
    /\ UNCHANGED <<driving, cmdQ, goal, reqId>>

arrive(n, ok, stage) ==
    /\ driving' = FALSE /\ cpc' = stage
    /\ base' = IF ok THEN n ELSE base
    /\ link_post(DepotReady[n], reqId, ok)
    /\ UNCHANGED <<cmdQ, goal, reqId>>

Located == cpc = "locate" /\ arrive(1, TRUE, "depot")

\* Without its line end the base neither shifts nor goes home any more.
LocateFailed ==
    /\ cpc = "lost" \/ (cpc = "locate" /\ SensorFaults)
    /\ arrive(1, FALSE, "parked")

\* Mutant: the answer names the station although the shift failed.
ShiftFailedUnnoticed ==
    /\ cpc = "missed" \/ (cpc = "shift" /\ SensorFaults)
    /\ driving' = FALSE /\ cpc' = "depot"
    /\ link_post(DepotReady[goal], reqId, TRUE)
    /\ UNCHANGED <<cmdQ, base, goal, reqId>>

ShiftDone == cpc = "shift" /\ arrive(goal, TRUE, "depot")
ShiftFailed ==
    /\ cpc = "missed" \/ (cpc = "shift" /\ SensorFaults)
    /\ arrive(goal, FALSE, "depot")

\* depot_hook and the loop around it
DepotCommand ==
    /\ cpc = "depot" /\ TakeCommand
    /\ \/ \E n \in Stations :
            /\ NextCommand.type = GoDepot[n]
            /\ drive_to(n, NextCommand.id, "shift")
       \/ /\ NextCommand.type = "DEPOT_OK"
          /\ drive_to(goal, NextCommand.id, "home")
       \/ /\ NextCommand.type \notin ShiftCommands \cup {"DEPOT_OK"}
          /\ cmd_default(NextCommand) /\ UNCHANGED <<cpc, base, goal, reqId>>

\* route_go(ROUTE_HOME) reads no command, and nothing does after it.
HomeDone ==
    /\ cpc = "home"
    /\ driving' = FALSE /\ cpc' = "end"
    /\ \E ok \in {TRUE} \cup {~SensorFaults} : link_post("HOME_READY", reqId, ok)
    /\ UNCHANGED <<cmdQ, base, goal, reqId>>

Parked ==
    /\ cpc = "parked" /\ TakeCommand
    /\ cmd_default(NextCommand)
    /\ UNCHANGED <<cpc, base, goal, reqId>>

ChassisNext ==
    \/ AwaitDepot \/ RouteDone \/ LocateMoves \/ StopInMotion \/ Located
    \/ LocateFailed \/ ShiftDone \/ ShiftFailed \/ DepotCommand \/ HomeDone
    \/ Parked
=============================================================================
