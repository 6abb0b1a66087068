----------------------------- MODULE ChassisBoot -----------------------------
(***************************************************************************)
(* The chassis task from power-up to its first departure (app_main.c,      *)
(* app_link.c): report the base, wait for the colour, load that side of    *)
(* the field, shake hands with the Mission task, wait for GO_PLATFORM.     *)
(***************************************************************************)
EXTENDS MissionLink

CONSTANT SensorFaults   \* may loading the map or the pose fail?

ASSUME SensorAssumption == SensorFaults \in BOOLEAN

VARIABLES
    cpc,       \* where the chassis task is
    driving,   \* a non-zero velocity is commanded
    applied,   \* the side route_set_side was called with
    side,      \* g_mission_side, written by the Mission task
    runMode    \* g_mission_run_mode, written by the Mission task

choiceVars == <<side, runMode>>
chassisVars == <<cpc, driving, applied>>

Sides == {"NONE", "RED", "BLUE"}
Modes == {"FORMAL", "RED_BACKUP"}
BootId == 1   \* LK_BOOT_REQ_ID

ChassisTypeOK ==
    /\ cpc \in {"base", "colour", "refuse", "post", "listen", "formal",
                "backup", "parked", "gone"}
    /\ driving \in BOOLEAN
    /\ {applied, side} \subseteq Sides /\ runMode \in Modes

ChassisInit ==
    /\ cpc = "base" /\ driving = FALSE /\ applied = "NONE"
    /\ side = "NONE" /\ runMode = "FORMAL"

EventRoom == Len(evtQ) < QueueDepth

\* cmd_default: STOP parks the base and is confirmed, the rest is dropped.
cmd_default(c) ==
    IF c.type = "STOP"
    THEN driving' = FALSE /\ link_post("STOPPED", c.id, TRUE)
    ELSE UNCHANGED <<driving, evtQ, flags>>

\* The base is initialised: repeat the report until it is queued.
ReportBase ==
    /\ cpc = "base" /\ EventRoom
    /\ link_post("BASE_READY", BootId, TRUE)
    /\ cpc' = "colour"
    /\ UNCHANGED <<cmdQ, driving, applied>>

\* side_apply, once a colour is chosen; no command is read before.
ApplySide ==
    /\ cpc = "colour" /\ side # "NONE"
    /\ applied' = side
    /\ cpc' = "post" \/ (SensorFaults /\ cpc' = "refuse")
    /\ UNCHANGED <<linkVars, driving>>

\* Without a map the handshake is refused, and only STOP is answered.
Refuse ==
    /\ cpc = "refuse" /\ EventRoom
    /\ link_post("MISSION_READY", BootId, FALSE)
    /\ cpc' = "parked" /\ driving' = FALSE
    /\ UNCHANGED <<cmdQ, applied>>

Parked ==
    /\ cpc = "parked" /\ TakeCommand
    /\ cmd_default(NextCommand)
    /\ UNCHANGED <<cpc, applied>>

\* link_handshake offers itself, and again whenever a second passed unanswered.
Offer ==
    /\ cpc = "post"
    /\ link_post("MISSION_READY", BootId, TRUE)
    /\ cpc' = "listen"
    /\ UNCHANGED <<cmdQ, driving, applied>>

\* The second is over: a turn of the Mission task takes a hundredth of it.
OfferAgain(missionWaits) ==
    /\ cpc = "listen" /\ cmdQ = <<>>
    /\ missionWaits
    /\ cpc' = "post"
    /\ UNCHANGED <<linkVars, driving, applied>>

Handshake ==
    /\ cpc = "listen" /\ TakeCommand
    /\ IF NextCommand.type = "MISSION_READY"
       THEN /\ cpc' = IF runMode = "RED_BACKUP" THEN "backup" ELSE "formal"
            /\ UNCHANGED <<driving, evtQ, flags>>
       ELSE cmd_default(NextCommand) /\ UNCHANGED cpc
    /\ UNCHANGED applied

\* link_wait(GO_PLATFORM), then the route
Depart ==
    /\ cpc = "formal" /\ TakeCommand
    /\ IF NextCommand.type = "GO_PLATFORM"
       THEN cpc' = "gone" /\ driving' = TRUE /\ UNCHANGED <<evtQ, flags>>
       ELSE cmd_default(NextCommand) /\ UNCHANGED cpc
    /\ UNCHANGED applied

\* app_red_backup_run: only red, and any other command than the expected one,
\* STOP included, parks the base for good.
DepartBackup ==
    /\ cpc = "backup" /\ applied = "RED" /\ TakeCommand
    /\ IF NextCommand.type = "GO_PLATFORM"
       THEN cpc' = "gone" /\ driving' = TRUE /\ UNCHANGED <<evtQ, flags>>
       ELSE cpc' = "parked" /\ cmd_default(NextCommand)
    /\ UNCHANGED applied

ChassisNext ==
    \/ ReportBase \/ ApplySide \/ Refuse \/ Parked \/ Offer
    \/ Handshake \/ Depart \/ DepartBackup
=============================================================================
