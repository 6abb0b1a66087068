-------------------------- MODULE ChassisPlatform --------------------------
(***************************************************************************)
(* The chassis task at the platform (app_main.c): drive there on command,  *)
(* report, and stand until the staircase is asked for.                     *)
(***************************************************************************)
EXTENDS MissionLink

CONSTANT SensorFaults   \* may the route fail?

ASSUME SensorAssumption == SensorFaults \in BOOLEAN

VARIABLES
    cpc,       \* where the chassis task is
    driving,   \* a non-zero velocity is commanded
    reqId      \* the request id of the stage

chassisVars == <<cpc, driving, reqId>>

ChassisTypeOK ==
    /\ cpc \in {"await", "route", "stand", "next"}
    /\ driving \in BOOLEAN /\ reqId \in Nat

ChassisInit == cpc = "await" /\ driving = FALSE /\ reqId = 0

\* cmd_default: STOP parks the base and is confirmed, the rest is dropped.
cmd_default(c) ==
    IF c.type = "STOP"
    THEN driving' = FALSE /\ link_post("STOPPED", c.id, TRUE)
    ELSE UNCHANGED <<driving, evtQ, flags>>

\* link_wait(GO_PLATFORM), then route_go(ROUTE_PLATFORM)
AwaitGo ==
    /\ cpc = "await" /\ TakeCommand
    /\ IF NextCommand.type = "GO_PLATFORM"
       THEN /\ cpc' = "route" /\ driving' = TRUE
            /\ reqId' = NextCommand.id
            /\ UNCHANGED <<evtQ, flags>>
       ELSE cmd_default(NextCommand) /\ UNCHANGED <<cpc, reqId>>

\* Mutant: the arrival is announced by a base that still rolls.
ArriveRolling ==
    /\ cpc = "route"
    /\ cpc' = "stand"
    /\ \E ok \in {TRUE} \cup {~SensorFaults} : link_post("PLATFORM_READY", reqId, ok)
    /\ UNCHANGED <<cmdQ, driving, reqId>>

\* route_go reads no command; the chassis goes on whatever it reports.
RouteDone ==
    /\ cpc = "route"
    /\ cpc' = "stand" /\ driving' = FALSE
    /\ \E ok \in {TRUE} \cup {~SensorFaults} : link_post("PLATFORM_READY", reqId, ok)
    /\ UNCHANGED <<cmdQ, reqId>>

\* link_wait(GO_STAIRS); the stage ends when it arrives.
AwaitNext ==
    /\ cpc = "stand" /\ TakeCommand
    /\ IF NextCommand.type = "GO_STAIRS"
       THEN cpc' = "next" /\ driving' = TRUE /\ UNCHANGED <<evtQ, flags>>
       ELSE cmd_default(NextCommand) /\ UNCHANGED cpc
    /\ UNCHANGED reqId

ChassisNext == AwaitGo \/ RouteDone \/ AwaitNext
=============================================================================
